---------------------------- MODULE Spec2Model ----------------------------
(***************************************************************************)
(* Routing and provider-orchestration core of Pearl LoLo.                  *)
(*                                                                         *)
(*   core/router.py   Router.route      -> RouterSpec                      *)
(*   core/utils.py    retry             -> RetrySpec                       *)
(*   core/cache.py    get / set_        -> CacheSpec                       *)
(*                                                                         *)
(* Text is modelled as a sequence of one-character strings, so that        *)
(* lower(), strip(), startswith() and the substring test of the router are *)
(* computed character by character, as the Python code computes them.      *)
(***************************************************************************)
EXTENDS Integers, Sequences, FiniteSets, TLC

(***************************************************************************)
(* Bounds of the model.                                                    *)
(***************************************************************************)
\* longest message list of a routed task
MaxMsgs == 2
\* largest `attempts` argument of retry
MaxAttempts == 4
\* number of values random.random() is drawn from: 0/n, 1/n, ..., (n-1)/n
JitterSteps == 3

(***************************************************************************)
(* State: the router, one call of retry, the cache with its clients, and    *)
(* the providers.                                                          *)
(***************************************************************************)
VARIABLES
    providers,    \* Router.providers: the capabilities that have a provider
    routeTask,    \* the task of the last route call
    routeStatus,  \* "idle", "returned" or "raised"
    routeError,   \* the error a raised call ended with
    routeResult,  \* the ProviderResult a returned call gave back
    invoked       \* the invoke calls the last route call made, in order

routerVars == <<providers, routeTask, routeStatus, routeError, routeResult, invoked>>

VARIABLES
    rAttempts,   \* attempts
    rBase,       \* base_delay
    rMax,        \* max_delay
    rI,          \* the loop variable i
    rLastErr,    \* last_err
    rCalls,      \* what each call of fn did, in order
    rSleeps,     \* the time.sleep calls, in order
    rStatus,     \* "idle", "running", "returned" or "raised"
    rResult,     \* the value a returned call gave back
    rRaised      \* the exception a raised call ended with

retryVars ==
    <<rAttempts, rBase, rMax, rI, rLastErr, rCalls, rSleeps, rStatus, rResult, rRaised>>

VARIABLES
    kvExists,   \* the table kv exists in the database file
    kv,         \* the committed rows of kv: records [k, v]
    client,     \* per client: the call under way and its connection
    lastPut     \* history: per key, the value of the last committed put

cacheVars == <<kvExists, kv, client, lastPut>>

VARIABLES
    pvName,     \* the provider whose invoke was called last
    pvTask,     \* the task it was called with
    pvEnv,      \* the settings, credentials and upstream behaviour of the call
    pvStatus,   \* "idle", "returned" or "raised"
    pvResult,   \* the ProviderResult a returned call gave back
    pvNet,      \* the requests the call sent over the network, in order
    pvError     \* the exception a raised call ended with

providerVars == <<pvName, pvTask, pvEnv, pvStatus, pvResult, pvNet, pvError>>

VARIABLES
    chTask,      \* the task of the chat call under way
    chPc,        \* "idle", "loop" or "returned"
    chModel,     \* the position of the loop in the two models
    chLastErr,   \* last_err
    chRequests,  \* the upstream requests of the call, in order
    chResult     \* the ProviderResult the call gave back

chatVars == <<chTask, chPc, chModel, chLastErr, chRequests, chResult>>

VARIABLES
    smData,   \* the payload _summarise_payload was called with last
    smText    \* the text it returned

summariseVars == <<smData, smText>>

VARIABLES
    hCfg,     \* the attributes SETTINGS.hrm carries
    hPc,      \* "idle", "lookup" or "post": where the solver call stands
    hTask,    \* the task of the call
    hKey,     \* cache_key
    hI,       \* the loop variable i of retry(call, attempts=3, base_delay=0.4)
    hTrace,   \* the steps of the call so far, in order
    hBefore,  \* the rows of the cache when the call began
    hLog      \* the finished calls, in order

solverVars == <<hCfg, hPc, hTask, hKey, hI, hTrace, hBefore, hLog>>

VARIABLES
    wT,          \* per worker thread: where its solver call stands, and its locals
    wBegun,      \* history: the solver calls begun so far
    wPosts,      \* history: the requests sent upstream so far
    wEmptyHits,  \* history: the lookups that found a stored empty object
    wLastSet     \* history: the payload of the last cache_set that succeeded

workerVars == <<wT, wBegun, wPosts, wEmptyHits, wLastSet>>

VARIABLES
    sdGrid,   \* the grid is_valid_sudoku was called with last
    sdValid   \* what it returned

sudokuVars == <<sdGrid, sdValid>>

VARIABLES
    rgColl,      \* the documents of the collection, in the order of their insertion
    rgBm25,      \* self._bm25
    rgBm25Docs,  \* self._bm25_docs
    rgScans,     \* history: the full corpus scans (coll.get) made so far
    rgT,         \* per thread: where its invoke stands, and its locals
    rgMin,       \* settings.rag.bm25_min_docs
    rgDone,      \* history: the number of finished calls of invoke
    rgLast       \* the call of invoke that ended in the last step, if one did

ragVars == <<rgColl, rgBm25, rgBm25Docs, rgScans, rgT, rgMin, rgDone, rgLast>>

\* what the actions of one component leave alone
exceptRouter == <<retryVars, cacheVars, providerVars, chatVars, summariseVars, solverVars, ragVars,
    sudokuVars, workerVars>>
exceptRetry == <<routerVars, cacheVars, providerVars, chatVars, summariseVars, solverVars, ragVars,
    sudokuVars, workerVars>>
exceptCache == <<routerVars, retryVars, providerVars, chatVars, summariseVars, solverVars, ragVars,
    sudokuVars, workerVars>>
exceptProviders == <<routerVars, retryVars, cacheVars, chatVars, summariseVars, solverVars, ragVars,
    sudokuVars, workerVars>>
exceptChat == <<routerVars, retryVars, cacheVars, providerVars, summariseVars, solverVars, ragVars,
    sudokuVars, workerVars>>
exceptSummarise == <<routerVars, retryVars, cacheVars, providerVars, chatVars, solverVars, ragVars,
    sudokuVars, workerVars>>
\* the solver reads and writes the rows of the cache
exceptSolver ==
    <<routerVars, retryVars, client, lastPut, providerVars, chatVars, summariseVars, ragVars,
      sudokuVars, workerVars>>
exceptRag ==
    <<routerVars, retryVars, cacheVars, providerVars, chatVars, summariseVars, solverVars,
      sudokuVars, workerVars>>
exceptSudoku ==
    <<routerVars, retryVars, cacheVars, providerVars, chatVars, summariseVars, solverVars,
      ragVars, workerVars>>
\* the worker threads read the settings and read and write the rows of the cache
exceptWorkers ==
    <<routerVars, retryVars, client, lastPut, providerVars, chatVars, summariseVars,
      solverVars, ragVars, sudokuVars>>

(***************************************************************************)
(* core/contracts.py                                                       *)
(***************************************************************************)
CHAT == "chat"
SOLVE == "solve"
RAG == "rag"
TTS == "tts"
STT == "stt"
SEARCH == "search"

Capability == {CHAT, SOLVE, RAG, TTS, STT, SEARCH}

(***************************************************************************)
(* Python str operations used by the router.                               *)
(***************************************************************************)
UpperToLower ==
    [c \in {"A","B","C","D","E","F","G","H","I","J","K","L","M",
            "N","O","P","Q","R","S","T","U","V","W","X","Y","Z"} |->
       CASE c = "A" -> "a" [] c = "B" -> "b" [] c = "C" -> "c" [] c = "D" -> "d"
         [] c = "E" -> "e" [] c = "F" -> "f" [] c = "G" -> "g" [] c = "H" -> "h"
         [] c = "I" -> "i" [] c = "J" -> "j" [] c = "K" -> "k" [] c = "L" -> "l"
         [] c = "M" -> "m" [] c = "N" -> "n" [] c = "O" -> "o" [] c = "P" -> "p"
         [] c = "Q" -> "q" [] c = "R" -> "r" [] c = "S" -> "s" [] c = "T" -> "t"
         [] c = "U" -> "u" [] c = "V" -> "v" [] c = "W" -> "w" [] c = "X" -> "x"
         [] c = "Y" -> "y" [] c = "Z" -> "z"]

\* str.lower()
Lower(s) ==
    [i \in 1..Len(s) |-> IF s[i] \in DOMAIN UpperToLower THEN UpperToLower[s[i]] ELSE s[i]]

Whitespace == {" ", "\t", "\n", "\r"}

RECURSIVE LStrip(_)
LStrip(s) == IF s # <<>> /\ Head(s) \in Whitespace THEN LStrip(Tail(s)) ELSE s

RECURSIVE RStrip(_)
RStrip(s) ==
    IF s # <<>> /\ s[Len(s)] \in Whitespace THEN RStrip(SubSeq(s, 1, Len(s) - 1)) ELSE s

\* str.strip()
Strip(s) == RStrip(LStrip(s))

\* s.startswith(p)
StartsWith(s, p) == Len(p) <= Len(s) /\ SubSeq(s, 1, Len(p)) = p

\* p in s
Contains(s, p) ==
    \E i \in 1..(Len(s) - Len(p) + 1) : SubSeq(s, i, i + Len(p) - 1) = p

kwSource == <<"s","o","u","r","c","e">>
kwCitation == <<"c","i","t","a","t","i","o","n">>
kwNet == <<"n","e","t",":">>
kwSearch == <<"s","e","a","r","c","h",":">>

(***************************************************************************)
(* Message contents a task is built from.                                  *)
(***************************************************************************)
Contents ==
    { <<>>,                                               \* ""
      <<"h","i">>,                                        \* "hi"
      <<"S","e","a","r","c","h">>,                        \* "Search"
      <<"a"," ","C","i","t","a","t","i","o","n">>,        \* "a Citation"
      <<" ","N","E","T",":","x">>,                        \* " NET:x"
      <<"s","e","a","r","c","h",":","q">>,                \* "search:q"
      <<"x"," ","n","e","t",":">>,                        \* "x net:"
      <<"n","e","t",":","S","O","U","R","C","E">> }       \* "net:SOURCE"

RECURSIVE SeqsUpTo(_, _)
SeqsUpTo(S, n) ==
    IF n = 0 THEN {<<>>}
    ELSE LET shorter == SeqsUpTo(S, n - 1)
         IN  shorter \cup {Append(q, x) : q \in {r \in shorter : Len(r) = n - 1}, x \in S}

\* Task(intent, messages); the other fields of Task are not read by the router
Tasks == [intent : Capability, messages : SeqsUpTo(Contents, MaxMsgs)]

NoTask == [intent |-> "none", messages |-> <<>>]

(***************************************************************************)
(* core/router.py                                                          *)
(***************************************************************************)
\* "source" in m.content.lower() or "citation" in m.content.lower(), per content
AsksForSources ==
    [c \in Contents |-> Contains(Lower(c), kwSource) \/ Contains(Lower(c), kwCitation)]

\* c.strip().lower() starts with "net:" or "search:", per content
IsSearchCommand ==
    [c \in Contents |->
        StartsWith(Lower(Strip(c)), kwNet) \/ StartsWith(Lower(Strip(c)), kwSearch)]

\* the mutant reads the last message only
WantSourcesLastOnly(task) ==
    /\ task.messages # <<>>
    /\ AsksForSources[task.messages[Len(task.messages)]]

\* want_sources = any(... for m in task.messages)
WantSources(task) == \E j \in 1..Len(task.messages) : AsksForSources[task.messages[j]]

\* the mutant looks for the prefix in every message
LastHasPrefixAnyMessage(task) ==
    \E j \in 1..Len(task.messages) : IsSearchCommand[task.messages[j]]

\* last = task.messages[-1].content.strip().lower(); last.startswith("net:") or ...
\* (only evaluated on a non-empty message list)
LastHasPrefix(task) == IsSearchCommand[task.messages[Len(task.messages)]]

Invoke(c) == [kind |-> "invoke", cap |-> c, err |-> "none"]
Raise(e) == [kind |-> "raise", cap |-> "none", err |-> e]

\* the mutant consults the content heuristics before the intent
RouteDecisionHeuristicFirst(reg, task) ==
    IF WantSources(task) /\ RAG \in reg THEN Invoke(RAG)
    ELSE IF task.messages # <<>> /\ LastHasPrefix(task) /\ SEARCH \in reg THEN Invoke(SEARCH)
    ELSE IF task.intent \in reg THEN Invoke(task.intent)
    ELSE IF CHAT \in reg THEN Invoke(CHAT)
    ELSE Raise("KeyError")

\* Which provider route calls, or the error it raises before calling any.
RouteDecision(reg, task) ==
    IF task.intent \in reg THEN Invoke(task.intent)
    ELSE IF WantSources(task) /\ RAG \in reg THEN Invoke(RAG)
    ELSE IF task.messages = <<>> THEN Raise("IndexError")   \* task.messages[-1]
    ELSE IF LastHasPrefix(task) /\ SEARCH \in reg THEN Invoke(SEARCH)
    ELSE IF CHAT \in reg THEN Invoke(CHAT)
    ELSE Raise("KeyError")                                  \* self.providers[CHAT]

\* What a provider's invoke does: it returns a result with ok set or not, or raises.
ProviderOutcomes == {"ok", "failed", "raise"}

Call(c, task, out) == [cap |-> c, task |-> task, outcome |-> out]

\* the mutant falls back to the chat provider when the chosen provider reports ok=false
RouteCallsChatFallback(reg, task, out) ==
    LET d == RouteDecision(reg, task)
    IN  IF d.kind = "raise" THEN <<>>
        ELSE IF out = "failed" /\ CHAT \in reg
             THEN <<Call(d.cap, task, out), Call(CHAT, task, out)>>
             ELSE <<Call(d.cap, task, out)>>

\* The invoke calls one route call makes: every branch is `return provider.invoke(task)`.
RouteCalls(reg, task, out) ==
    LET d == RouteDecision(reg, task)
    IN  IF d.kind = "raise" THEN <<>> ELSE <<Call(d.cap, task, out)>>

NoResult == [from |-> "none", ok |-> FALSE]
ResultOf(call) == [from |-> call.cap, ok |-> call.outcome = "ok"]

RouterInit ==
    /\ providers \in SUBSET Capability
    /\ routeTask = NoTask
    /\ routeStatus = "idle"
    /\ routeError = "none"
    /\ routeResult = NoResult
    /\ invoked = <<>>

\* Router.route(task)
Route(task, out) ==
    LET d == RouteDecision(providers, task)
        calls == RouteCalls(providers, task, out)
    IN  /\ routeStatus = "idle"
        /\ routeTask' = task
        /\ invoked' = calls
        /\ IF d.kind = "raise"
           THEN /\ routeStatus' = "raised"
                /\ routeError' = d.err
                /\ routeResult' = NoResult
           ELSE IF out = "raise"
           THEN /\ routeStatus' = "raised"
                /\ routeError' = "ProviderError"
                /\ routeResult' = NoResult
           ELSE /\ routeStatus' = "returned"
                /\ routeError' = "none"
                /\ routeResult' = ResultOf(calls[Len(calls)])
        /\ UNCHANGED providers
        /\ UNCHANGED exceptRouter

\* The caller has taken the result or the error; the router serves the next task.
RouteDone ==
    /\ routeStatus # "idle"
    /\ routeTask' = NoTask
    /\ routeStatus' = "idle"
    /\ routeError' = "none"
    /\ routeResult' = NoResult
    /\ invoked' = <<>>
    /\ UNCHANGED providers
    /\ UNCHANGED exceptRouter

RouterNext ==
    \/ routeStatus = "idle" /\ \E task \in Tasks, out \in ProviderOutcomes : Route(task, out)
    \/ RouteDone

(***************************************************************************)
(* core/utils.py: retry(fn, attempts=3, base_delay=0.4, max_delay=2.5).    *)
(* Delays are in tenths of a second.  A sleep of base * (1 + r/4) seconds  *)
(* with r = j/JitterSteps is kept as the pair of its base and the          *)
(* numerator base * (4*JitterSteps + j) over the denominator 4*JitterSteps.*)
(***************************************************************************)
DefaultAttempts == 3
DefaultBaseDelay == 4
DefaultMaxDelay == 25

AttemptsArgs == (0 - 1)..MaxAttempts
BaseDelays == {DefaultBaseDelay, 10}
MaxDelays == {DefaultMaxDelay, 12}

\* what fn() can return, and the classes of Exception it can raise
FnValues == {"ok", "pong"}
ErrTypes == {"RuntimeError", "TimeoutError"}

NoErr == [type |-> "none", call |-> 0]
\* the exception object raised by the n-th call of fn
Err(type, n) == [type |-> type, call |-> n]
\* `raise None`: "exceptions must derive from BaseException"
RaiseNoneError == [type |-> "TypeError", call |-> 0]

Returned(v) == [ok |-> TRUE, val |-> v, err |-> NoErr]
Failed(e) == [ok |-> FALSE, val |-> "none", err |-> e]

Min(a, b) == IF a <= b THEN a ELSE b

\* the mutant forgets the cap
DelayBaseUncapped(b, m, i) == b * (2 ^ i)

\* min(max_delay, base_delay * (2 ** i))
DelayBase(b, m, i) == Min(m, b * (2 ^ i))

\* ... * (1 + random.random() * 0.25), random.random() = j / JitterSteps
Delay(b, m, i, j) ==
    [base |-> DelayBase(b, m, i), num |-> DelayBase(b, m, i) * (4 * JitterSteps + j)]

\* the mutant never sees the final attempt: it sleeps after it as well
IsLastAttemptNever(i, attempts) == i = attempts

\* if i == attempts - 1: break
IsLastAttempt(i, attempts) == i = attempts - 1

RetryInit ==
    /\ rAttempts = 0
    /\ rBase = 0
    /\ rMax = 0
    /\ rI = 0
    /\ rLastErr = NoErr
    /\ rCalls = <<>>
    /\ rSleeps = <<>>
    /\ rStatus = "idle"
    /\ rResult = "none"
    /\ rRaised = NoErr

\* the mutant returns None when range(attempts) is empty
RetryBeginFallsThrough(a, b, m) ==
    /\ rStatus = "idle"
    /\ rAttempts' = a
    /\ rBase' = b
    /\ rMax' = m
    /\ rI' = 0
    /\ rLastErr' = NoErr
    /\ rCalls' = <<>>
    /\ rSleeps' = <<>>
    /\ rResult' = "none"
    /\ rRaised' = NoErr
    /\ rStatus' = IF a >= 1 THEN "running" ELSE "returned"
    /\ UNCHANGED exceptRetry

\* retry is called: last_err = None, and the loop is entered unless range(attempts) is empty,
\* in which case the function ends in `raise last_err` with last_err = None.
RetryBegin(a, b, m) ==
    /\ rStatus = "idle"
    /\ rAttempts' = a
    /\ rBase' = b
    /\ rMax' = m
    /\ rI' = 0
    /\ rLastErr' = NoErr
    /\ rCalls' = <<>>
    /\ rSleeps' = <<>>
    /\ rResult' = "none"
    /\ IF a >= 1
       THEN rStatus' = "running" /\ rRaised' = NoErr
       ELSE rStatus' = "raised" /\ rRaised' = RaiseNoneError
    /\ UNCHANGED exceptRetry

\* the mutant loses the value of a call that succeeds after a failure
RetryAttemptReturnsLosesValue(v) ==
    /\ rStatus = "running"
    /\ rCalls' = Append(rCalls, Returned(v))
    /\ IF rLastErr = NoErr
       THEN rStatus' = "returned" /\ rResult' = v /\ rRaised' = NoErr
       ELSE rStatus' = "raised" /\ rResult' = "none" /\ rRaised' = rLastErr
    /\ UNCHANGED <<rAttempts, rBase, rMax, rI, rLastErr, rSleeps>>
    /\ UNCHANGED exceptRetry

\* one iteration: `return fn()`
RetryAttemptReturns(v) ==
    /\ rStatus = "running"
    /\ rCalls' = Append(rCalls, Returned(v))
    /\ rStatus' = "returned"
    /\ rResult' = v
    /\ UNCHANGED <<rAttempts, rBase, rMax, rI, rLastErr, rSleeps, rRaised>>
    /\ UNCHANGED exceptRetry

\* one iteration: fn() raises on the final attempt: last_err = e; break; raise last_err
RetryAttemptFailsLast(type) ==
    LET e == Err(type, Len(rCalls) + 1)
    IN  /\ rStatus = "running"
        /\ IsLastAttempt(rI, rAttempts)
        /\ rCalls' = Append(rCalls, Failed(e))
        /\ rLastErr' = e
        /\ rStatus' = "raised"
        /\ rRaised' = e
        /\ UNCHANGED <<rAttempts, rBase, rMax, rI, rSleeps, rResult>>
        /\ UNCHANGED exceptRetry

\* one iteration: fn() raises on an earlier attempt: last_err = e; time.sleep(delay);
\* the loop goes on with the next i, or ends in `raise last_err` when range(attempts)
\* is exhausted.
RetryAttemptFailsSleep(type, j) ==
    LET e == Err(type, Len(rCalls) + 1)
    IN  /\ rStatus = "running"
        /\ ~IsLastAttempt(rI, rAttempts)
        /\ rCalls' = Append(rCalls, Failed(e))
        /\ rLastErr' = e
        /\ rSleeps' = Append(rSleeps, Delay(rBase, rMax, rI, j))
        /\ rI' = rI + 1
        /\ IF rI + 1 < rAttempts
           THEN rStatus' = "running" /\ rRaised' = rRaised
           ELSE rStatus' = "raised" /\ rRaised' = e
        /\ UNCHANGED <<rAttempts, rBase, rMax, rResult>>
        /\ UNCHANGED exceptRetry

\* The caller has the value or the exception; retry can be called again.
RetryDone ==
    /\ rStatus \in {"returned", "raised"}
    /\ rAttempts' = 0
    /\ rBase' = 0
    /\ rMax' = 0
    /\ rI' = 0
    /\ rLastErr' = NoErr
    /\ rCalls' = <<>>
    /\ rSleeps' = <<>>
    /\ rStatus' = "idle"
    /\ rResult' = "none"
    /\ rRaised' = NoErr
    /\ UNCHANGED exceptRetry

RetryNext ==
    \/ \E a \in AttemptsArgs, b \in BaseDelays, m \in MaxDelays : RetryBegin(a, b, m)
    \/ \E v \in FnValues : RetryAttemptReturns(v)
    \/ \E type \in ErrTypes : RetryAttemptFailsLast(type)
    \/ \E type \in ErrTypes, j \in 0..(JitterSteps - 1) : RetryAttemptFailsSleep(type, j)
    \/ RetryDone

(***************************************************************************)
(* JSON, as core/cache.py uses it.  A Python dict is the sequence of its   *)
(* (key, value) pairs in insertion order, with string keys as in a decoded *)
(* JSON object; a JSON text is the sequence of its tokens.                 *)
(***************************************************************************)
PyStr(x) == [t |-> "str", s |-> x, n |-> 0, items |-> <<>>]
PyInt(x) == [t |-> "int", s |-> "", n |-> x, items |-> <<>>]
PyList(xs) == [t |-> "list", s |-> "", n |-> 0, items |-> xs]

Tok(k, x, y) == [k |-> k, s |-> x, n |-> y]
LBrace == Tok("punct", "{", 0)
RBrace == Tok("punct", "}", 0)
LBracket == Tok("punct", "[", 0)
RBracket == Tok("punct", "]", 0)
Colon == Tok("punct", ":", 0)
Comma == Tok("punct", ",", 0)
TString(x) == Tok("string", x, 0)
TNumber(x) == Tok("number", "", x)

\* a scalar as json.dumps writes it
DumpsAtom(v) == IF v.t = "str" THEN TString(v.s) ELSE TNumber(v.n)

RECURSIVE DumpsItems(_)
DumpsItems(xs) ==
    IF xs = <<>> THEN <<>>
    ELSE IF Len(xs) = 1 THEN <<DumpsAtom(xs[1])>>
    ELSE <<DumpsAtom(xs[1]), Comma>> \o DumpsItems(Tail(xs))

DumpsValue(v) ==
    IF v.t = "list" THEN <<LBracket>> \o DumpsItems(v.items) \o <<RBracket>>
    ELSE <<DumpsAtom(v)>>

RECURSIVE DumpsMembers(_)
DumpsMembers(d) ==
    IF d = <<>> THEN <<>>
    ELSE LET m == <<TString(d[1][1]), Colon>> \o DumpsValue(d[1][2])
         IN  IF Len(d) = 1 THEN m ELSE m \o <<Comma>> \o DumpsMembers(Tail(d))

\* json.dumps(value, ensure_ascii=False)
Dumps(d) == <<LBrace>> \o DumpsMembers(d) \o <<RBrace>>

LoadsAtom(tok) == IF tok.k = "string" THEN PyStr(tok.s) ELSE PyInt(tok.n)

RECURSIVE ParseItems(_, _, _)
ParseItems(toks, i, acc) ==
    IF toks[i] = RBracket THEN [val |-> PyList(acc), next |-> i + 1]
    ELSE IF toks[i] = Comma THEN ParseItems(toks, i + 1, acc)
    ELSE ParseItems(toks, i + 1, Append(acc, LoadsAtom(toks[i])))

ParseValue(toks, i) ==
    IF toks[i] = LBracket THEN ParseItems(toks, i + 1, <<>>)
    ELSE [val |-> LoadsAtom(toks[i]), next |-> i + 1]

RECURSIVE ParseMembers(_, _, _)
ParseMembers(toks, i, acc) ==
    IF toks[i] = RBrace THEN acc
    ELSE IF toks[i] = Comma THEN ParseMembers(toks, i + 1, acc)
    ELSE LET pv == ParseValue(toks, i + 2)
         IN  ParseMembers(toks, pv.next, Append(acc, <<toks[i].s, pv.val>>))

\* json.loads(text) of a JSON object
Loads(toks) == ParseMembers(toks, 2, <<>>)

\* == on two dicts: the same keys with equal values, in any order
DeepEqual(d1, d2) ==
    /\ Len(d1) = Len(d2)
    /\ {d1[i] : i \in 1..Len(d1)} = {d2[i] : i \in 1..Len(d2)}

(***************************************************************************)
(* core/cache.py over SQLite.  The kv table is the set of its rows; a      *)
(* connection holds no lock, a SHARED lock (an open SELECT) or the         *)
(* RESERVED lock (an open write transaction); COMMIT needs every other     *)
(* connection to hold no lock; a connection that cannot get its lock       *)
(* waits, and after the busy timeout raises "database is locked".          *)
(***************************************************************************)
Writers == {"w1", "w2"}
Readers == {"r1"}
Clients == Writers \cup Readers

Keys == {"hrm:a", "hrm:b"}

\* the dicts written: {}, {"answer": "4"}, {"answer": 4, "steps": ["a", 1]}
Payloads ==
    { <<>>,
      << <<"answer", PyStr("4")>> >>,
      << <<"answer", PyInt(4)>>, <<"steps", PyList(<<PyStr("a"), PyInt(1)>>)>> >> }

\* _hash(s): the SHA-256 hex digest, one digest per key
Hash(key) == <<"sha256", key>>

\* Optional[dict]
None == [some |-> FALSE, v |-> <<>>]
Some(d) == [some |-> TRUE, v |-> d]

\* cur.fetchone()
NoRow == [found |-> FALSE, v |-> <<>>]
Row(text) == [found |-> TRUE, v |-> text]

Idle ==
    [op |-> "none", pc |-> "idle", key |-> "none", val |-> <<>>, h |-> <<>>, text |-> <<>>,
     row |-> NoRow, res |-> None, status |-> "none", lock |-> "none", overlapped |-> FALSE]

CacheInit ==
    /\ kvExists = FALSE
    /\ kv = {}
    /\ client = [c \in Clients |-> Idle]
    /\ lastPut = [k \in Keys |-> None]

OthersHold(c, locks) == \E o \in Clients \ {c} : client[o].lock \in locks

InCall(c) == client[c].pc \notin {"idle", "done"}

\* the mutant keeps the row that is there: INSERT OR IGNORE
InsertOrIgnore(rows, h, text) ==
    IF \E r \in rows : r.k = h THEN rows ELSE rows \cup {[k |-> h, v |-> text]}

\* the mutant is a plain INSERT into a table without the primary key
InsertPlain(rows, h, text) == rows \cup {[k |-> h, v |-> text]}

\* REPLACE INTO kv (k, v) VALUES (?, ?) on k TEXT PRIMARY KEY
ReplaceInto(rows, h, text) == {r \in rows : r.k # h} \cup {[k |-> h, v |-> text]}

\* set_(key, value): h = _hash(key); val = json.dumps(value); sqlite3.connect(DB)
PutBegin(c, key, value) ==
    /\ c \in Writers
    /\ client[c].pc = "idle"
    /\ client' = [o \in Clients |->
                    IF o = c
                    THEN [Idle EXCEPT !.op = "put", !.pc = "create", !.key = key,
                                      !.val = value, !.h = Hash(key), !.text = Dumps(value),
                                      !.overlapped = \E w \in Writers \ {c} : InCall(w)]
                    ELSE IF o \in Writers /\ InCall(o)
                    THEN [client[o] EXCEPT !.overlapped = TRUE]
                    ELSE client[o]]
    /\ UNCHANGED <<kvExists, kv, lastPut>>
    /\ UNCHANGED exceptCache

\* get(key): h = _hash(key); sqlite3.connect(DB)
GetBegin(c, key) ==
    /\ c \in Readers
    /\ client[c].pc = "idle"
    /\ client' = [client EXCEPT ![c] =
                    [Idle EXCEPT !.op = "get", !.pc = "create", !.key = key, !.h = Hash(key)]]
    /\ UNCHANGED <<kvExists, kv, lastPut>>
    /\ UNCHANGED exceptCache

\* CREATE TABLE IF NOT EXISTS kv (...): a statement of its own, committed at once.
\* It reads the schema when the table is there and writes it when it is not.
CreateTable(c) ==
    /\ client[c].pc = "create"
    /\ kvExists \/ ~OthersHold(c, {"shared", "reserved"})
    /\ kvExists' = TRUE
    /\ client' = [client EXCEPT ![c].pc = IF client[c].op = "put" THEN "replace" ELSE "select"]
    /\ UNCHANGED <<kv, lastPut>>
    /\ UNCHANGED exceptCache

\* conn.execute("REPLACE INTO ..."): opens the write transaction (RESERVED lock)
Replace(c) ==
    /\ client[c].pc = "replace"
    /\ ~OthersHold(c, {"reserved"})
    /\ client' = [client EXCEPT ![c].pc = "commit", ![c].lock = "reserved"]
    /\ UNCHANGED <<kvExists, kv, lastPut>>
    /\ UNCHANGED exceptCache

\* conn.commit(): the rows of the transaction replace the committed ones; set_ returns
Commit(c) ==
    /\ client[c].pc = "commit"
    /\ ~OthersHold(c, {"shared"})
    /\ kv' = ReplaceInto(kv, client[c].h, client[c].text)
    /\ lastPut' = [lastPut EXCEPT ![client[c].key] = Some(client[c].val)]
    /\ client' = [client EXCEPT ![c].pc = "done", ![c].lock = "none", ![c].status = "returned"]
    /\ UNCHANGED kvExists
    /\ UNCHANGED exceptCache

\* cur = conn.execute("SELECT v FROM kv WHERE k=?"); row = cur.fetchone():
\* the cursor stays open, and with it the SHARED lock, until get returns
Select(c) ==
    /\ client[c].pc = "select"
    /\ \/ \E r \in kv : r.k = client[c].h /\
             client' = [client EXCEPT ![c].pc = "return", ![c].lock = "shared",
                                      ![c].row = Row(r.v)]
       \/ (\A r \in kv : r.k # client[c].h) /\
             client' = [client EXCEPT ![c].pc = "return", ![c].lock = "shared",
                                      ![c].row = NoRow]
    /\ UNCHANGED <<kvExists, kv, lastPut>>
    /\ UNCHANGED exceptCache

\* return json.loads(row[0]) if row else None
GetReturn(c) ==
    /\ client[c].pc = "return"
    /\ client' = [client EXCEPT ![c].pc = "done", ![c].lock = "none", ![c].status = "returned",
                    ![c].res = IF client[c].row.found THEN Some(Loads(client[c].row.v))
                               ELSE None]
    /\ UNCHANGED <<kvExists, kv, lastPut>>
    /\ UNCHANGED exceptCache

\* the statement a client waits to run cannot get its lock
Blocked(c) ==
    \/ client[c].pc = "create" /\ ~kvExists /\ OthersHold(c, {"shared", "reserved"})
    \/ client[c].pc = "replace" /\ OthersHold(c, {"reserved"})
    \/ client[c].pc = "commit" /\ OthersHold(c, {"shared"})

\* the busy timeout (5 s) runs out: sqlite3.OperationalError, the transaction is rolled back
BusyTimeout(c) ==
    /\ Blocked(c)
    /\ client' = [client EXCEPT ![c].pc = "done", ![c].lock = "none", ![c].status = "raised"]
    /\ UNCHANGED <<kvExists, kv, lastPut>>
    /\ UNCHANGED exceptCache

\* the caller has the result; the client makes its next call
CallDone(c) ==
    /\ client[c].pc = "done"
    /\ client' = [client EXCEPT ![c] = Idle]
    /\ UNCHANGED <<kvExists, kv, lastPut>>
    /\ UNCHANGED exceptCache

CacheNext ==
    \/ \E c \in Writers, key \in Keys, value \in Payloads : PutBegin(c, key, value)
    \/ \E c \in Readers, key \in Keys : GetBegin(c, key)
    \/ \E c \in Clients : CreateTable(c)
    \/ \E c \in Writers : Replace(c)
    \/ \E c \in Writers : Commit(c)
    \/ \E c \in Readers : Select(c)
    \/ \E c \in Readers : GetReturn(c)
    \/ \E c \in Clients : BusyTimeout(c)
    \/ \E c \in Clients : CallDone(c)

(***************************************************************************)
(* providers/: invoke of the cloud chat, search, retrieval and speech      *)
(* providers.  Each call is one step; what the call meets outside the      *)
(* process (settings, credentials, the upstream answer, the vector index)  *)
(* is an input of the step.  str(exc) is the name of the exception.        *)
(***************************************************************************)
\* ProviderResult(ok=..., text=..., warnings=...); text defaults to "", warnings to []
ProviderResult(ok, text, warnings) == [ok |-> ok, text |-> text, warnings |-> warnings]

NoProviderResult == ProviderResult(FALSE, "none", <<"none">>)

\* what client.post / client.get, raise_for_status and the reading of the body do
HttpOutcomes == {"ok", "ConnectError", "ReadTimeout", "HTTPStatusError", "JSONDecodeError", "KeyError"}

\* SETTINGS.search.provider
SearchBackends == {"tavily", "serpapi", "bing"}

\* an API key from the environment: unset ("") or set
ApiKeys == {"", "key"}

\* what coll.query does: passages, no passage, or an error of the index
IndexOutcomes == {"hits", "empty", "QueryError"}

NoEnv ==
    [enabled |-> FALSE, backend |-> "none", tavily |-> "", serpapi |-> "", openai |-> "",
     http |-> "none", index |-> "none"]

\* the tasks a provider is invoked with
TasksOf(c) == [intent : {c}, messages : SeqsUpTo(Contents, MaxMsgs)]

ProvidersInit ==
    /\ pvName = "none"
    /\ pvTask = NoTask
    /\ pvEnv = NoEnv
    /\ pvStatus = "idle"
    /\ pvResult = NoProviderResult
    /\ pvNet = <<>>
    /\ pvError = "none"

\* the call returns result to its caller; it sent nothing over the network
Returns(name, task, env, result) ==
    /\ pvName' = name
    /\ pvTask' = task
    /\ pvEnv' = env
    /\ pvStatus' = "returned"
    /\ pvResult' = result
    /\ pvNet' = <<>>
    /\ pvError' = "none"
    /\ UNCHANGED exceptProviders

\* the call sends one request to url and then returns result to its caller
Requests(name, task, env, url, result) ==
    /\ pvName' = name
    /\ pvTask' = task
    /\ pvEnv' = env
    /\ pvStatus' = "returned"
    /\ pvResult' = result
    /\ pvNet' = <<url>>
    /\ pvError' = "none"
    /\ UNCHANGED exceptProviders

\* the call ends with exception e, which reaches its caller
Raises(name, task, env, e) ==
    /\ pvName' = name
    /\ pvTask' = task
    /\ pvEnv' = env
    /\ pvStatus' = "raised"
    /\ pvResult' = NoProviderResult
    /\ pvNet' = <<>>
    /\ pvError' = e
    /\ UNCHANGED exceptProviders

\* ProviderResult(ok=False, text="Set OPENAI_API_KEY in .env.local.")
OpenAiMissingKey == ProviderResult(FALSE, "Set OPENAI_API_KEY in .env.local.", <<>>)

\* OpenAiLlmProvider.invoke
OpenAiInvoke(task, key, http) ==
    LET env == [NoEnv EXCEPT !.openai = key, !.http = http]
    IN  /\ pvStatus = "idle"
        /\ IF key = ""
           THEN Returns("llm_openai", task, env, OpenAiMissingKey)
           ELSE IF http = "ok"
           THEN Requests("llm_openai", task, env, "OPENAI_BASE_URL/chat/completions",
                         ProviderResult(TRUE, "completion", <<>>))
           ELSE Requests("llm_openai", task, env, "OPENAI_BASE_URL/chat/completions",
                         ProviderResult(FALSE, "OpenAI call failed.", <<http>>))

\* the url of _tavily and of _serpapi
SearchUrl(backend) ==
    IF backend = "tavily" THEN "https://api.tavily.com/search"
    ELSE "https://serpapi.com/search.json"

\* WebSearchProvider.invoke
WebSearchInvoke(task, enabled, backend, tavily, serpapi, http) ==
    LET env == [NoEnv EXCEPT !.enabled = enabled, !.backend = backend, !.tavily = tavily,
                             !.serpapi = serpapi, !.http = http]
        name == "websearch"
    IN  /\ pvStatus = "idle"
        /\ IF ~enabled
           THEN Returns(name, task, env,
                        ProviderResult(FALSE, "Search disabled. Enable in config.",
                                       <<"search_disabled">>))
           ELSE IF task.messages = <<>>
           THEN Raises(name, task, env, "IndexError")
           ELSE IF backend = "tavily" /\ tavily = ""
           THEN Returns(name, task, env, ProviderResult(FALSE, "Missing TAVILY_API_KEY.", <<>>))
           ELSE IF backend = "serpapi" /\ serpapi = ""
           THEN Returns(name, task, env, ProviderResult(FALSE, "Missing SERPAPI_API_KEY.", <<>>))
           ELSE IF backend \notin {"tavily", "serpapi"}
           THEN Returns(name, task, env, ProviderResult(FALSE, "Unknown search provider.", <<>>))
           ELSE IF http = "ok"
           THEN Requests(name, task, env, SearchUrl(backend),
                         ProviderResult(TRUE, "Top results:", <<>>))
           ELSE Requests(name, task, env, SearchUrl(backend),
                         ProviderResult(FALSE, "Search failed.", <<http>>))

\* dense = self._dense(query, k) when coll.query raises: nothing catches it
RagQueryError(task, env) == Raises("rag", task, env, "QueryError")

\* RagProvider.invoke
RagInvoke(task, index) ==
    LET env == [NoEnv EXCEPT !.index = index]
    IN  /\ pvStatus = "idle"
        /\ IF task.messages = <<>>
           THEN Raises("rag", task, env, "IndexError")
           ELSE IF index = "QueryError"
           THEN RagQueryError(task, env)
           ELSE IF index = "hits"
           THEN Returns("rag", task, env, ProviderResult(TRUE, "Here are relevant passages:", <<>>))
           ELSE Returns("rag", task, env,
                        ProviderResult(TRUE, "Insufficient evidence. Here are sources to consult (index may be small).", <<>>))

\* SttProvider.invoke
SttInvoke(task) ==
    /\ pvStatus = "idle"
    /\ Returns("stt", task, NoEnv, ProviderResult(TRUE, "(STT stub - install faster-whisper to transcribe.)", <<>>))

\* TtsProvider.invoke
TtsInvoke(task) ==
    /\ pvStatus = "idle"
    /\ Returns("tts", task, NoEnv, ProviderResult(TRUE, "(TTS stub - install piper-tts to synthesize.)", <<>>))

\* the caller has the outcome; the next call can be made
InvokeDone ==
    /\ pvStatus # "idle"
    /\ pvName' = "none"
    /\ pvTask' = NoTask
    /\ pvEnv' = NoEnv
    /\ pvStatus' = "idle"
    /\ pvResult' = NoProviderResult
    /\ pvNet' = <<>>
    /\ pvError' = "none"
    /\ UNCHANGED exceptProviders

ProvidersNext ==
    \/ \E task \in TasksOf(CHAT), key \in ApiKeys, http \in HttpOutcomes :
            OpenAiInvoke(task, key, http)
    \/ \E task \in TasksOf(SEARCH), enabled \in BOOLEAN, backend \in SearchBackends,
          tavily \in ApiKeys, serpapi \in ApiKeys, http \in HttpOutcomes :
            WebSearchInvoke(task, enabled, backend, tavily, serpapi, http)
    \/ \E task \in TasksOf(RAG), index \in IndexOutcomes : RagInvoke(task, index)
    \/ \E task \in TasksOf(STT) : SttInvoke(task)
    \/ \E task \in TasksOf(TTS) : TtsInvoke(task)
    \/ InvokeDone

(***************************************************************************)
(* providers/llm.py: LlmProvider.invoke, one step per upstream request.    *)
(***************************************************************************)
\* the mutant asks the secondary model first
ChatModelsSwapped == <<"fallback_model", "primary_model">>

\* for model in (SETTINGS.llm.primary_model, SETTINGS.llm.fallback_model)
ChatModels == <<"primary_model", "fallback_model">>

\* response.json()["choices"][0]["message"]["content"] of a successful request
Completion(model) ==
    IF model = "primary_model" THEN "completion of primary_model"
    ELSE "completion of fallback_model"

\* f"LLM failed: {last_err}" if last_err else "LLM failed"
ChatWarning(lastErr) == IF lastErr = "None" THEN <<"LLM failed">> ELSE <<"LLM failed: ", lastErr>>

ChatInit ==
    /\ chTask = NoTask
    /\ chPc = "idle"
    /\ chModel = 0
    /\ chLastErr = "None"
    /\ chRequests = <<>>
    /\ chResult = NoProviderResult

\* invoke is called: messages are built, last_err = None, the loop starts
ChatBegin(task) ==
    /\ chPc = "idle"
    /\ chTask' = task
    /\ chPc' = "loop"
    /\ chModel' = 1
    /\ chLastErr' = "None"
    /\ chRequests' = <<>>
    /\ chResult' = NoProviderResult
    /\ UNCHANGED exceptChat

\* the request for the model succeeds: its content is returned
ChatRequestSucceeds ==
    /\ chPc = "loop"
    /\ chRequests' = Append(chRequests, [model |-> ChatModels[chModel], outcome |-> "ok"])
    /\ chResult' = ProviderResult(TRUE, Completion(ChatModels[chModel]), <<>>)
    /\ chPc' = "returned"
    /\ UNCHANGED <<chTask, chModel, chLastErr>>
    /\ UNCHANGED exceptChat

\* the request, its status check or the reading of its body raises:
\* last_err = str(exc); the loop goes on, and after the last model the
\* failure result is returned
ChatRequestFails(http) ==
    /\ chPc = "loop"
    /\ http # "ok"
    /\ chRequests' = Append(chRequests, [model |-> ChatModels[chModel], outcome |-> http])
    /\ chLastErr' = http
    /\ IF chModel < Len(ChatModels)
       THEN /\ chModel' = chModel + 1
            /\ UNCHANGED <<chPc, chResult>>
       ELSE /\ chPc' = "returned"
            /\ chResult' = ProviderResult(FALSE, "LLM not reachable. Start Ollama and pull models.",
                                          <<ChatWarning(http)>>)
            /\ UNCHANGED chModel
    /\ UNCHANGED chTask
    /\ UNCHANGED exceptChat

\* the caller has the result; the next call can be made
ChatDone ==
    /\ chPc = "returned"
    /\ chPc' = "idle"
    /\ UNCHANGED <<chTask, chModel, chLastErr, chRequests, chResult>>
    /\ UNCHANGED exceptChat

ChatNext ==
    \/ \E task \in TasksOf(CHAT) : ChatBegin(task)
    \/ ChatRequestSucceeds
    \/ \E http \in HttpOutcomes : ChatRequestFails(http)
    \/ ChatDone

(***************************************************************************)
(* core/sudoku.py.  A grid is a text: a sequence of one-character strings. *)
(***************************************************************************)
Digits == {"0", "1", "2", "3", "4", "5", "6", "7", "8", "9"}

\* characters outside "0".."9" for which str.isdigit() is true, each written
\* as its Unicode name: U+0663 and U+00B2
OtherDigits == {"ARABIC-INDIC DIGIT THREE", "SUPERSCRIPT TWO"}

\* ch.isdigit()
IsDigitStr(ch) == ch \in Digits \cup OtherDigits

\* valid_81(grid)
Valid81(grid) == Len(grid) = 81 /\ \A i \in 1..Len(grid) : IsDigitStr(grid[i])

\* _rc(i), for the 0-based index i
RowOf(i) == i \div 9
ColOf(i) == i % 9
BoxOf(i) == (RowOf(i) \div 3) * 3 + (ColOf(i) \div 3)

\* the cells the loop skips
Blank(ch) == ch \in {"0", ".", " ", "\n"}

\* is_valid_sudoku(grid): the loop returns False at the first cell whose
\* character was already added to its row, column or box
IsValidSudoku(grid) ==
    /\ Valid81(grid)
    /\ ~\E i, j \in 0..80 :
          /\ i < j
          /\ ~Blank(grid[j + 1])
          /\ grid[i + 1] = grid[j + 1]
          /\ RowOf(i) = RowOf(j) \/ ColOf(i) = ColOf(j) \/ BoxOf(i) = BoxOf(j)

Zeros(n) == [i \in 1..n |-> "0"]

\* the grid of tests/test_hrm_validator.py, by rows
TestGrid ==
    <<"5", "3", "0", "0", "7", "0", "0", "0", "0">> \o
    <<"6", "0", "0", "1", "9", "5", "0", "0", "0">> \o
    <<"0", "9", "8", "0", "0", "0", "0", "6", "0">> \o
    <<"8", "0", "0", "0", "6", "0", "0", "0", "3">> \o
    <<"4", "0", "0", "8", "0", "3", "0", "0", "1">> \o
    <<"7", "0", "0", "0", "2", "0", "0", "0", "6">> \o
    <<"0", "6", "0", "0", "0", "0", "2", "8", "0">> \o
    <<"0", "0", "0", "4", "1", "9", "0", "0", "5">> \o
    <<"0", "0", "0", "0", "8", "0", "0", "7", "9">>

\* the characters of the cells of the grids: digits, the other blanks, a
\* letter, and a character of OtherDigits
CellChars == {"0", "5", "7", ".", "x", "ARABIC-INDIC DIGIT THREE"}

\* pairs of cells (0-based): in one row and box, one column and box, one box
\* only, one row only, one column only, and with nothing in common
CellPairs == {<<0, 1>>, <<0, 9>>, <<0, 10>>, <<0, 4>>, <<0, 36>>, <<0, 40>>}

\* the lengths of the shorter and longer grids
GridLengths == {0, 80, 82}

\* the grids is_valid_sudoku is called with: the grid of the test, the
\* all-zero texts of other lengths, and the all-zero grid with two cells set
SudokuGrids ==
    {TestGrid}
    \cup {Zeros(n) : n \in GridLengths}
    \cup {[Zeros(81) EXCEPT ![p[1] + 1] = a, ![p[2] + 1] = b] :
             p \in CellPairs, a \in CellChars, b \in CellChars}

NoGrid == <<"none">>

SudokuInit ==
    /\ sdGrid = NoGrid
    /\ sdValid = FALSE

\* a call of is_valid_sudoku(grid)
Validate(grid) ==
    /\ sdGrid' = grid
    /\ sdValid' = IsValidSudoku(grid)
    /\ UNCHANGED exceptSudoku

\* the caller has the answer
ValidateDone ==
    /\ sdGrid # NoGrid
    /\ sdGrid' = NoGrid
    /\ sdValid' = FALSE
    /\ UNCHANGED exceptSudoku

SudokuNext ==
    \/ sdGrid = NoGrid /\ \E grid \in SudokuGrids : Validate(grid)
    \/ ValidateDone

(***************************************************************************)
(* providers/hrm.py: the request of a solver task and its cache key.       *)
(***************************************************************************)

\* an 81-digit grid with the digit 5 twice in its first row
GridDuplicate == <<"5", "5">> \o Zeros(79)

\* an 81-digit grid with one clue
GridOneClue == <<"5">> \o Zeros(80)

\* the contents of the messages of solver tasks: "hi", " hi", and the grids
SolverContents == {<<"h", "i">>, <<" ", "h", "i">>, GridDuplicate, GridOneClue}

\* Task.params: {}, {"hrm_task": "sudoku"}, {"strategy": ""}
SolverParams ==
    {<<>>, << <<"hrm_task", "sudoku">> >>, << <<"strategy", "">> >>}

\* Task.locale, Task.tz, Task.user_tags: the defaults, and one other value of each
SolverMetadata ==
    { [locale |-> "en-GB", tz |-> "Asia/Kuwait", user_tags |-> <<>>],
      [locale |-> "ar-KW", tz |-> "Asia/Kuwait", user_tags |-> <<>>],
      [locale |-> "en-GB", tz |-> "UTC", user_tags |-> <<>>],
      [locale |-> "en-GB", tz |-> "Asia/Kuwait", user_tags |-> <<"vip">>] }

\* Task(intent=Capability.SOLVE, messages=[Message(role="user", content=c)]),
\* with the defaults of Task for params, locale, tz and user_tags
DefaultTaskOf(c) ==
    [intent |-> SOLVE, messages |-> <<c>>, params |-> <<>>,
     locale |-> "en-GB", tz |-> "Asia/Kuwait", user_tags |-> <<>>]

\* the solver tasks: every content with the defaults, and the content "hi"
\* with every params and every metadata
SolverTasks ==
    {DefaultTaskOf(c) : c \in SolverContents}
    \cup {[DefaultTaskOf(<<"h", "i">>) EXCEPT !.params = ps] : ps \in SolverParams}
    \cup {[DefaultTaskOf(<<"h", "i">>) EXCEPT
              !.locale = md.locale, !.tz = md.tz, !.user_tags = md.user_tags] :
            md \in SolverMetadata}

\* dict.get(key, default) on a dict given as its (key, value) pairs
DictHas(d, key) == \E i \in 1..Len(d) : d[i][1] = key
DictGet(d, key, default) ==
    IF DictHas(d, key) THEN d[CHOOSE i \in 1..Len(d) : d[i][1] = key][2] ELSE default

\* _flatten_messages(task): one "[Role] content.strip()" part per message
FlattenMessages(task) ==
    [i \in 1..Len(task.messages) |-> <<"[User] ", Strip(task.messages[i])>>]

\* the attributes of SETTINGS.hrm (core/settings.py, class HrmCfg)
HrmCfg == {"url", "health_path", "solve_path", "timeout_s", "enforce_fenced_block"}

\* a settings object that also carries the two attributes invoke reads
HrmCfgWithDefaults == HrmCfg \cup {"default_task", "default_strategy"}

HrmCfgs == {HrmCfg, HrmCfgWithDefaults}

\* the values of SETTINGS.hrm.default_task and SETTINGS.hrm.default_strategy
\* where the settings carry them: some non-empty strings
DefaultTask == "SETTINGS.hrm.default_task"
DefaultStrategy == "SETTINGS.hrm.default_strategy"

\* payload = {"prompt": ..., "task": ..., "metadata": {...}} and, for a
\* non-empty string strategy, payload["strategy"]; the members are listed in
\* the order of their keys, as json.dumps(sort_keys=True) writes them
HrmPayload(task) ==
    LET hrm_task == DictGet(task.params, "hrm_task", DefaultTask)
        strategy == DictGet(task.params, "strategy", DefaultStrategy)
        metadata == << <<"locale", task.locale>>, <<"tags", task.user_tags>>, <<"tz", task.tz>> >>
    IN  IF strategy # ""
        THEN << <<"metadata", metadata>>, <<"prompt", FlattenMessages(task)>>,
                <<"strategy", strategy>>, <<"task", hrm_task>> >>
        ELSE << <<"metadata", metadata>>, <<"prompt", FlattenMessages(task)>>,
                <<"task", hrm_task>> >>

\* the mutant derives the key from the prompt alone
HrmCacheKeyPromptOnly(task) == <<"hrm:", FlattenMessages(task)>>

\* cache_key = f"hrm:{json.dumps(payload, ensure_ascii=False, sort_keys=True)}"
HrmCacheKey(task) == <<"hrm:", HrmPayload(task)>>

(***************************************************************************)
(* providers/hrm.py: _summarise_payload.  A rendered text is the sequence  *)
(* of its blocks (the parts joined by "\n\n"), a block the sequence of its *)
(* lines, a line a sequence of strings.                                    *)
(***************************************************************************)
\* the characters of a string value: the values with white space around
\* them are spelt out, every other value is one piece without white space
CharsOf(str) ==
    CASE str = " 4 " -> <<" ", "4", " ">>
      [] str = "  " -> <<" ", " ">>
      [] str = "" -> <<>>
      [] OTHER -> <<str>>

\* preferred_text_fields
PreferredTextFields == <<"answer", "final_answer", "solution", "response", "output", "text">>

\* field.replace('_', ' ').title()
TitleOf(field) ==
    CASE field = "answer" -> "Answer"
      [] field = "final_answer" -> "Final Answer"
      [] field = "solution" -> "Solution"
      [] field = "response" -> "Response"
      [] field = "output" -> "Output"
      [] field = "text" -> "Text"

\* data.get(field), None being a value of its own type
PyNone == [t |-> "none", s |-> "", n |-> 0, items |-> <<>>]
DataGet(data, field) == DictGet(data, field, PyNone)

\* isinstance(value, str) and value.strip()
RendersAsText(value) == value.t = "str" /\ Strip(CharsOf(value.s)) # <<>>

\* f"**{field.replace('_', ' ').title()}**\n{value.strip()}"
TextSection(field, value) == << <<"**", TitleOf(field), "**">>, Strip(CharsOf(value.s)) >>

\* the sections of the fields of the list that render, in the order of the list
RECURSIVE TextSections(_, _)
TextSections(data, fields) ==
    IF fields = <<>> THEN <<>>
    ELSE LET value == DataGet(data, fields[1])
             rest == TextSections(data, Tail(fields))
         IN  IF RendersAsText(value) THEN <<TextSection(fields[1], value)>> \o rest ELSE rest

\* _format_iterable(items), for items that are not dicts: one "- item" line each
FormatIterable(items) ==
    [i \in 1..Len(items) |->
        <<"- ", IF items[i].t = "str" THEN items[i].s ELSE ToString(items[i].n)>>]

\* isinstance(data.get(name), list) and data[name]: the section of the list
ListSections(data, name, title) ==
    LET value == DataGet(data, name)
    IN  IF value.t = "list" /\ value.items # <<>>
        THEN << <<title>> \o FormatIterable(value.items) >>
        ELSE <<>>

\* a value as json.dumps writes it
ValueText(value) ==
    IF value.t = "str" THEN <<"\"", value.s, "\"">>
    ELSE IF value.t = "int" THEN <<ToString(value.n)>>
    ELSE <<"[">> \o [i \in 1..Len(value.items) |->
                        IF value.items[i].t = "str" THEN value.items[i].s
                        ELSE ToString(value.items[i].n)] \o <<"]">>

\* json.dumps(data, ensure_ascii=False, indent=2): "{}", or one line per member
Pretty(data) ==
    IF data = <<>> THEN << <<"{}">> >>
    ELSE << <<"{">> >>
         \o [i \in 1..Len(data) |->
                <<"  ", "\"", data[i][1], "\"", ": ">> \o ValueText(data[i][2])
                \o (IF i < Len(data) THEN <<",">> ELSE <<>>)]
         \o << <<"}">> >>

\* the fenced block around the pretty-printed payload; FENCE stands for the
\* three backquotes of the fence
FencedJson(data) == << <<"FENCE", "json">> >> \o Pretty(data) \o << <<"FENCE">> >>

\* _summarise_payload(data)
SummarisePayload(data) ==
    LET sections ==
            TextSections(data, PreferredTextFields)
            \o ListSections(data, "steps", <<"**Steps**">>)
            \o ListSections(data, "plan", <<"**Plan**">>)
            \o ListSections(data, "insights", <<"**Insights**">>)
    IN  IF sections = <<>> THEN <<FencedJson(data)>> ELSE sections

\* a key the payload does not have
Absent == [t |-> "absent", s |-> "", n |-> 0, items |-> <<>>]
IsMember(m) == m[2].t # "absent"

\* the payloads summarised: every choice of having or not having each of
\* the fields, with string, blank, integer and list values
SummarisePayloads ==
    { SelectSeq(<< <<"answer", a>>, <<"final_answer", f>>, <<"solution", so>>,
                   <<"response", r>>, <<"output", o>>, <<"text", t>>,
                   <<"steps", st>>, <<"plan", pl>>, <<"insights", ins>>,
                   <<"status", x>> >>, IsMember) :
        a \in {Absent, PyStr("4"), PyStr("  "), PyInt(4)},
        f \in {Absent, PyStr("x")},
        so \in {Absent, PyStr(" 4 ")},
        r \in {Absent, PyStr("r")},
        o \in {Absent, PyStr("o")},
        t \in {Absent, PyStr("t")},
        st \in {Absent, PyList(<<>>), PyList(<<PyStr("a"), PyInt(1)>>)},
        pl \in {Absent, PyList(<<PyStr("p")>>)},
        ins \in {Absent, PyList(<<PyInt(7)>>)},
        x \in {Absent, PyStr("done")} }

NoText == << << <<"none">> >> >>

SummariseInit ==
    /\ smData = <<>>
    /\ smText = NoText

\* text = _summarise_payload(data)
Summarise(data) ==
    /\ smData' = data
    /\ smText' = SummarisePayload(data)
    /\ UNCHANGED exceptSummarise

\* the caller has the text; the next payload can be summarised
SummariseDone ==
    /\ smText # NoText
    /\ smData' = <<>>
    /\ smText' = NoText
    /\ UNCHANGED exceptSummarise

SummariseNext ==
    \/ smText = NoText /\ \E data \in SummarisePayloads : Summarise(data)
    \/ SummariseDone

(***************************************************************************)
(* providers/hrm.py: HrmProvider.invoke.  Calls are made one after the     *)
(* other; a call of cache_get or cache_set that runs alone is one step on  *)
(* the rows of the cache.                                                  *)
(***************************************************************************)
\* retry(call, attempts=3, base_delay=0.4)
HrmAttempts == 3

\* the claims speak of a first and of a second invocation
Invocations == <<"first", "second">>

\* get(key), run alone: the decoded value of the row of the key, or None
CacheGet(rows, key) ==
    LET hit == {r \in rows : r.k = Hash(key)}
    IN  IF hit = {} THEN None ELSE Some(Loads((CHOOSE r \in hit : TRUE).v))

\* set_(key, value), run alone
CacheSet(rows, key, value) == ReplaceInto(rows, Hash(key), Dumps(value))

\* the mutant tests `if cached is not None:`
TruthyIfNotNone(cached) == cached.some

\* `if cached:` - None and the empty dict are false
Truthy(cached) == cached.some /\ cached.v # <<>>

\* ProviderResult(ok=..., text=..., data=..., warnings=...)
HrmResult(ok, text, data, warnings) ==
    [ok |-> ok, text |-> text, data |-> data, warnings |-> warnings]

NoHrmResult == HrmResult(FALSE, NoText, <<>>, <<"none">>)

\* the mutant shows a cached payload as raw JSON
HitTextRaw(cached) == << << <<"# HRM Result (cached)">> >> >> \o <<FencedJson(cached)>>

\* "# HRM Result (cached)\n\n" + _summarise_payload(cached)
HitText(cached) == << << <<"# HRM Result (cached)">> >> >> \o SummarisePayload(cached)

\* "# HRM Result\n\n" + _summarise_payload(data)
MissText(data) == << << <<"# HRM Result">> >> >> \o SummarisePayload(data)

\* ProviderResult(ok=False, text="HRM request failed.", warnings=[str(exc)])
HrmFailed(e) == HrmResult(FALSE, << << <<"HRM request failed.">> >> >>, <<>>, <<e>>)

\* what client.post gives back: a status code and a body, which is the
\* JSON text of a payload or not JSON at all
Malformed == <<Tok("punct", "<html>", 0)>>
HrmResponses ==
    {[status |-> 500, body |-> b] : b \in {Malformed, Dumps(<< <<"answer", PyStr("4")>> >>)}}
    \cup {[status |-> 200, body |-> b] : b \in {Malformed} \cup {Dumps(d) : d \in Payloads}}

\* what makes client.post raise
PostErrors == {"ConnectError", "ReadTimeout"}

NoSolverTask ==
    [intent |-> "none", messages |-> <<>>, params |-> <<>>,
     locale |-> "", tz |-> "", user_tags |-> <<>>]

HrmAtRest ==
    /\ hPc = "idle"
    /\ hTask = NoSolverTask
    /\ hKey = <<>>
    /\ hI = 0
    /\ hTrace = <<>>
    /\ hBefore = {}
    /\ hLog = <<>>

\* the settings core/settings.py loads
HrmInit == hCfg = HrmCfg /\ HrmAtRest

\* the call ends: by a return (status "returned") or by an exception that
\* reaches the caller (status "raised")
Finish(task, status, result, error, trace, payload, before) ==
    /\ hLog' = Append(hLog, [task |-> task, status |-> status, result |-> result,
                             error |-> error, trace |-> trace, payload |-> payload,
                             before |-> before, after |-> kv'])
    /\ hPc' = "idle"
    /\ hTask' = NoSolverTask
    /\ hKey' = <<>>
    /\ hI' = 0
    /\ hTrace' = <<>>
    /\ hBefore' = {}

\* invoke(task), lines 93-111: the prompt, the two reads of SETTINGS.hrm
\* (an attribute the settings do not carry raises AttributeError), the
\* payload and the cache key
HrmBegin(task) ==
    /\ hPc = "idle"
    /\ Len(hLog) < Len(Invocations)
    /\ UNCHANGED <<hCfg, kv, kvExists>>
    /\ IF {"default_task", "default_strategy"} \subseteq hCfg
       THEN /\ hPc' = "lookup"
            /\ hTask' = task
            /\ hKey' = HrmCacheKey(task)
            /\ hI' = 0
            /\ hTrace' = <<>>
            /\ hBefore' = kv
            /\ UNCHANGED hLog
       ELSE Finish(task, "raised", NoHrmResult, "AttributeError", <<>>, None, kv)
    /\ UNCHANGED exceptSolver

\* cached = cache_get(cache_key) raises (the database is locked or cannot
\* be opened): the call is outside the try block
HrmLookupFails ==
    /\ hPc = "lookup"
    /\ UNCHANGED <<hCfg, kv, kvExists>>
    /\ Finish(hTask, "raised", NoHrmResult, "OperationalError",
              Append(hTrace, "cache_get"), None, hBefore)
    /\ UNCHANGED exceptSolver

\* cached = cache_get(cache_key); if cached: return the cached result
HrmLookup ==
    /\ hPc = "lookup"
    /\ kvExists' = TRUE
    /\ UNCHANGED <<hCfg, kv>>
    /\ LET cached == CacheGet(kv, hKey)
       IN  IF Truthy(cached)
           THEN Finish(hTask, "returned",
                       HrmResult(TRUE, HitText(cached.v), cached.v, <<"cached">>),
                       "none", Append(hTrace, "cache_get"), None, hBefore)
           ELSE /\ hPc' = "post"
                /\ hTrace' = Append(hTrace, "cache_get")
                /\ UNCHANGED <<hTask, hKey, hI, hBefore, hLog>>
    /\ UNCHANGED exceptSolver

\* client.post raises inside retry: on the last attempt the error leaves
\* retry and the except branch returns the failure; otherwise retry sleeps
HrmPostRaises(e) ==
    /\ hPc = "post"
    /\ UNCHANGED <<hCfg, kv, kvExists>>
    /\ IF IsLastAttempt(hI, HrmAttempts)
       THEN Finish(hTask, "returned", HrmFailed(e), "none",
                   Append(hTrace, "post"), None, hBefore)
       ELSE /\ hI' = hI + 1
            /\ hTrace' = hTrace \o <<"post", "sleep">>
            /\ UNCHANGED <<hPc, hTask, hKey, hBefore, hLog>>
    /\ UNCHANGED exceptSolver

\* the mutant writes the cache before it looks at the status
HrmPostRespondsStoreFirst(response, storeOk) ==
    /\ hPc = "post"
    /\ LET trace == Append(hTrace, "post")
           data == Loads(response.body)
       IN  IF response.body = Malformed
           THEN /\ UNCHANGED <<kv, kvExists>>
                /\ Finish(hTask, "returned", HrmFailed("JSONDecodeError"), "none",
                          trace, None, hBefore)
           ELSE IF ~storeOk
           THEN /\ UNCHANGED <<kv, kvExists>>
                /\ Finish(hTask, "returned", HrmFailed("OperationalError"), "none",
                          Append(trace, "cache_set raises"), Some(data), hBefore)
           ELSE IF response.status # 200
           THEN /\ kv' = CacheSet(kv, hKey, data)
                /\ kvExists' = TRUE
                /\ Finish(hTask, "returned", HrmFailed("HTTPStatusError"), "none",
                          Append(trace, "cache_set"), None, hBefore)
           ELSE /\ kv' = CacheSet(kv, hKey, data)
                /\ kvExists' = TRUE
                /\ Finish(hTask, "returned", HrmResult(TRUE, MissText(data), data, <<>>),
                          "none", Append(trace, "cache_set"), Some(data), hBefore)
    /\ UNCHANGED hCfg
    /\ UNCHANGED exceptSolver

\* client.post returns a response, which leaves retry; lines 129-140:
\* raise_for_status(), response.json(), cache_set(cache_key, data) and the
\* result; an exception of any of the three is caught at line 141
HrmPostResponds(response, storeOk) ==
    /\ hPc = "post"
    /\ LET trace == Append(hTrace, "post")
           data == Loads(response.body)
       IN  IF response.status # 200
           THEN /\ UNCHANGED <<kv, kvExists>>
                /\ Finish(hTask, "returned", HrmFailed("HTTPStatusError"), "none",
                          trace, None, hBefore)
           ELSE IF response.body = Malformed
           THEN /\ UNCHANGED <<kv, kvExists>>
                /\ Finish(hTask, "returned", HrmFailed("JSONDecodeError"), "none",
                          trace, None, hBefore)
           ELSE IF ~storeOk
           THEN /\ UNCHANGED <<kv, kvExists>>
                /\ Finish(hTask, "returned", HrmFailed("OperationalError"), "none",
                          Append(trace, "cache_set raises"), Some(data), hBefore)
           ELSE /\ kv' = CacheSet(kv, hKey, data)
                /\ kvExists' = TRUE
                /\ Finish(hTask, "returned", HrmResult(TRUE, MissText(data), data, <<>>),
                          "none", Append(trace, "cache_set"), Some(data), hBefore)
    /\ UNCHANGED hCfg
    /\ UNCHANGED exceptSolver

HrmNext ==
    \/ \E task \in SolverTasks : HrmBegin(task)
    \/ HrmLookupFails
    \/ HrmLookup
    \/ \E e \in PostErrors : HrmPostRaises(e)
    \/ \E response \in HrmResponses, storeOk \in BOOLEAN : HrmPostResponds(response, storeOk)

(***************************************************************************)
(* providers/hrm.py: HrmProvider.invoke called from the worker threads of  *)
(* the front door, all with the same request.  A call of cache_get or of   *)
(* cache_set is one transaction of the cache and so one step; the request  *)
(* to the upstream service is a step of its own, between the two.          *)
(***************************************************************************)
Workers == {"w1", "w2"}

\* the solver calls made in one run
MaxSolverCalls == 3

\* the request of all the calls
WorkerTask == DefaultTaskOf(<<"h", "i">>)

WorkerIdle ==
    [pc |-> "idle", i |-> 0, trace |-> <<>>, cached |-> None, data |-> None,
     result |-> NoHrmResult, error |-> "none"]

WorkersInit ==
    /\ wT = [t \in Workers |-> WorkerIdle]
    /\ wBegun = 0
    /\ wPosts = 0
    /\ wEmptyHits = 0
    /\ wLastSet = None

\* the call of worker t returns result
WorkerReturns(t, step, result) ==
    wT' = [wT EXCEPT ![t] = [@ EXCEPT !.pc = "returned", !.trace = @ \o step,
                                      !.result = result]]

\* the call of worker t ends with an exception that reaches its caller
WorkerRaises(t, step, e) ==
    wT' = [wT EXCEPT ![t] = [@ EXCEPT !.pc = "raised", !.trace = @ \o step, !.error = e]]

\* invoke(task), lines 93-111
WorkerBegin(t) ==
    /\ wT[t].pc = "idle"
    /\ wBegun < MaxSolverCalls
    /\ wBegun' = wBegun + 1
    /\ IF {"default_task", "default_strategy"} \subseteq hCfg
       THEN wT' = [wT EXCEPT ![t] = [WorkerIdle EXCEPT !.pc = "lookup"]]
       ELSE WorkerRaises(t, <<>>, "AttributeError")
    /\ UNCHANGED <<kv, kvExists, wPosts, wEmptyHits, wLastSet>>
    /\ UNCHANGED exceptWorkers

\* cached = cache_get(cache_key) raises: the database is locked or cannot be opened
WorkerLookupFails(t) ==
    /\ wT[t].pc = "lookup"
    /\ WorkerRaises(t, <<"cache_get">>, "OperationalError")
    /\ UNCHANGED <<kv, kvExists, wBegun, wPosts, wEmptyHits, wLastSet>>
    /\ UNCHANGED exceptWorkers

\* cached = cache_get(cache_key); if cached: return the cached result
WorkerLookup(t) ==
    LET cached == CacheGet(kv, HrmCacheKey(WorkerTask))
    IN  /\ wT[t].pc = "lookup"
        /\ kvExists' = TRUE
        /\ wEmptyHits' = IF cached = Some(<<>>) THEN wEmptyHits + 1 ELSE wEmptyHits
        /\ IF Truthy(cached)
           THEN wT' = [wT EXCEPT ![t] =
                          [@ EXCEPT !.pc = "returned", !.trace = @ \o <<"cache_get">>,
                                    !.cached = cached,
                                    !.result = HrmResult(TRUE, HitText(cached.v), cached.v,
                                                         <<"cached">>)]]
           ELSE wT' = [wT EXCEPT ![t] =
                          [@ EXCEPT !.pc = "post", !.trace = @ \o <<"cache_get">>,
                                    !.cached = cached]]
        /\ UNCHANGED <<kv, wBegun, wPosts, wLastSet>>
        /\ UNCHANGED exceptWorkers

\* client.post raises inside retry(call, attempts=3, base_delay=0.4)
WorkerPostRaises(t, e) ==
    /\ wT[t].pc = "post"
    /\ wPosts' = wPosts + 1
    /\ IF IsLastAttempt(wT[t].i, HrmAttempts)
       THEN WorkerReturns(t, <<"post">>, HrmFailed(e))
       ELSE wT' = [wT EXCEPT ![t] = [@ EXCEPT !.i = @ + 1, !.trace = @ \o <<"post", "sleep">>]]
    /\ UNCHANGED <<kv, kvExists, wBegun, wEmptyHits, wLastSet>>
    /\ UNCHANGED exceptWorkers

\* client.post returns a response; raise_for_status() and response.json()
WorkerPostResponds(t, response) ==
    /\ wT[t].pc = "post"
    /\ wPosts' = wPosts + 1
    /\ IF response.status # 200
       THEN WorkerReturns(t, <<"post">>, HrmFailed("HTTPStatusError"))
       ELSE IF response.body = Malformed
       THEN WorkerReturns(t, <<"post">>, HrmFailed("JSONDecodeError"))
       ELSE wT' = [wT EXCEPT ![t] = [@ EXCEPT !.pc = "store", !.trace = @ \o <<"post">>,
                                               !.data = Some(Loads(response.body))]]
    /\ UNCHANGED <<kv, kvExists, wBegun, wEmptyHits, wLastSet>>
    /\ UNCHANGED exceptWorkers

\* cache_set(cache_key, data) and the result of lines 132-140; an exception
\* of cache_set is caught at line 141
WorkerStore(t, storeOk) ==
    LET data == wT[t].data.v
    IN  /\ wT[t].pc = "store"
        /\ IF storeOk
           THEN /\ kv' = CacheSet(kv, HrmCacheKey(WorkerTask), data)
                /\ kvExists' = TRUE
                /\ wLastSet' = Some(data)
                /\ WorkerReturns(t, <<"cache_set">>,
                                 HrmResult(TRUE, MissText(data), data, <<>>))
           ELSE /\ UNCHANGED <<kv, kvExists, wLastSet>>
                /\ WorkerReturns(t, <<"cache_set raises">>, HrmFailed("OperationalError"))
        /\ UNCHANGED <<wBegun, wPosts, wEmptyHits>>
        /\ UNCHANGED exceptWorkers

\* the caller of worker t has the outcome; the thread serves the next request
WorkerDone(t) ==
    /\ wT[t].pc \in {"returned", "raised"}
    /\ wT' = [wT EXCEPT ![t] = WorkerIdle]
    /\ UNCHANGED <<kv, kvExists, wBegun, wPosts, wEmptyHits, wLastSet>>
    /\ UNCHANGED exceptWorkers

WorkersNext ==
    \E t \in Workers :
        \/ WorkerBegin(t)
        \/ WorkerLookupFails(t)
        \/ WorkerLookup(t)
        \/ \E e \in PostErrors : WorkerPostRaises(t, e)
        \/ \E response \in HrmResponses : WorkerPostResponds(t, response)
        \/ \E storeOk \in BOOLEAN : WorkerStore(t, storeOk)
        \/ WorkerDone(t)

(***************************************************************************)
(* providers/rag.py: RagProvider.invoke on one provider instance, called   *)
(* from the worker threads of the front door.  A step is one access to the *)
(* collection or to self._bm25 / self._bm25_docs.  A text chunk is the     *)
(* pair of its first 120 characters and the characters after them.         *)
(***************************************************************************)
RagThreads == {"t1", "t2"}

\* the calls of invoke made in one run
MaxQueries == 2

\* the documents the collection can hold
MaxDocs == 4

\* the values of k: task.params["k"], or SETTINGS.rag.k
MaxK == 2

\* SETTINGS.rag.bm25_min_docs, scaled to the collections of the model
Bm25MinDocs == 2

\* the i-th document: id, text and metadata.  Documents 1 and 3 have the
\* same source and the same first 120 characters; document 2 has no source
Doc(i) ==
    [id |-> ToString(i),
     text |-> <<IF i % 2 = 1 THEN "abc" ELSE "xyz", ToString(i)>>,
     meta |-> IF i % 3 = 2 THEN <<>> ELSE << <<"source", "S1">> >>]

\* the collections: the first n documents
Collection(n) == [i \in 1..n |-> Doc(i)]

\* Task(intent=Capability.RAG, messages=..., params={"k": k})
RagTasks == [intent : {RAG}, messages : {<<>>, << <<"h", "i">> >>}, k : 1..MaxK]

\* Citation(source=meta.get("source", id), snippet=doc[:400], score=...); the
\* score is kept as the search that computed it
Citation(d, by) == [source |-> DictGet(d.meta, "source", d.id), snippet |-> d.text, score |-> by]

\* the injective sequences of length n over 1..m: the orders a ranking can give
Rankings(m, n) ==
    {r \in [1..n -> 1..m] : \A i, j \in 1..n : i # j => r[i] # r[j]}

\* None, for self._bm25 and self._bm25_docs
NoIndex == [some |-> FALSE, docs |-> <<>>, build |-> 0]

\* BM25Okapi(tokenised) and list(zip(ids, docs, metadatas)) of the scan `build`
IndexOf(docs, build) == [some |-> TRUE, docs |-> docs, build |-> build]

RagIdle ==
    [pc |-> "idle", task |-> [intent |-> RAG, messages |-> <<>>, k |-> 0], n |-> 0,
     dense |-> <<>>, top |-> <<>>, over |-> NoIndex, items |-> <<>>, build |-> 0,
     trace |-> <<>>]

\* what is kept of a finished call: its task, its outcome, its steps, the
\* count it read, its two result lists, the fused citations, and the scans
\* that built the index it ranked with and the document list it read
RagCall(l, status, error, bm25, citations, docs) ==
    [task |-> l.task, status |-> status, error |-> error, trace |-> l.trace, n |-> l.n,
     dense |-> l.dense, bm25 |-> bm25, citations |-> citations,
     index |-> l.over.build, docs |-> docs]

NoRagCall == RagCall(RagIdle, "none", "none", <<>>, <<>>, 0)

RagInit ==
    /\ rgColl \in {Collection(n) : n \in 0..MaxDocs}
    /\ rgBm25 = NoIndex
    /\ rgBm25Docs = NoIndex
    /\ rgScans = 0
    /\ rgT = [t \in RagThreads |-> RagIdle]
    /\ rgMin \in {0, Bm25MinDocs}
    /\ rgDone = 0
    /\ rgLast = NoRagCall

\* the key of the fusion: (citation.source, citation.snippet[:120])
FuseKey(c) == <<c.source, c.snippet[1]>>

\* the mutant lists the dense results first
FuseDenseFirst(bm25, dense, k) ==
    LET all == dense \o bm25
        first == {i \in 1..Len(all) : \A j \in 1..(i - 1) : FuseKey(all[j]) # FuseKey(all[i])}
        Kept[i \in 0..Len(all)] ==
            IF i = 0 THEN <<>>
            ELSE IF i \in first THEN Append(Kept[i - 1], all[i]) ELSE Kept[i - 1]
    IN  SubSeq(Kept[Len(all)], 1, Min(k, Len(Kept[Len(all)])))

\* seen = {}; for citation in bm25 + dense: first of each key; list(...)[:k]
Fuse(bm25, dense, k) ==
    LET all == bm25 \o dense
        first == {i \in 1..Len(all) : \A j \in 1..(i - 1) : FuseKey(all[j]) # FuseKey(all[i])}
        Kept[i \in 0..Len(all)] ==
            IF i = 0 THEN <<>>
            ELSE IF i \in first THEN Append(Kept[i - 1], all[i]) ELSE Kept[i - 1]
    IN  SubSeq(Kept[Len(all)], 1, Min(k, Len(Kept[Len(all)])))

\* the call of thread t, with the locals l, ends.  A returned call gives the
\* fused citations of lines 95-100
RagFinish(t, l, status, error, bm25, docs) ==
    /\ rgDone' = rgDone + 1
    /\ UNCHANGED rgMin
    /\ rgLast' = RagCall(l, status, error, bm25,
                         IF status = "returned" THEN Fuse(bm25, l.dense, l.task.k) ELSE <<>>,
                         docs)
    /\ rgT' = [rgT EXCEPT ![t] = RagIdle]

\* no call ends in this step
RagGoesOn == rgDone' = rgDone /\ rgLast' = NoRagCall /\ UNCHANGED rgMin

\* the step of thread t goes on at pc, with the locals l
RagGoes(t, pc, event, l) ==
    rgT' = [rgT EXCEPT ![t] = [l EXCEPT !.pc = pc, !.trace = l.trace \o event]]

\* invoke(task): query = task.messages[-1].content
RagBegin(t, task) ==
    /\ rgT[t].pc = "idle"
    /\ rgDone + Cardinality({u \in RagThreads : rgT[u].pc # "idle"}) < MaxQueries
    /\ IF task.messages = <<>>
       THEN RagFinish(t, [RagIdle EXCEPT !.task = task], "raised", "IndexError", <<>>, 0)
       ELSE /\ RagGoes(t, "dense", <<>>, [RagIdle EXCEPT !.task = task])
            /\ RagGoesOn
    /\ UNCHANGED <<rgColl, rgBm25, rgBm25Docs, rgScans>>
    /\ UNCHANGED exceptRag

\* _dense: coll.query raises
RagDenseRaises(t) ==
    /\ rgT[t].pc = "dense"
    /\ RagFinish(t, [rgT[t] EXCEPT !.trace = @ \o <<"dense">>], "raised", "QueryError", <<>>, 0)
    /\ UNCHANGED <<rgColl, rgBm25, rgBm25Docs, rgScans>>
    /\ UNCHANGED exceptRag

\* _dense: coll.query gives the k nearest documents, or all if there are fewer
RagDense(t, ranking) ==
    /\ rgT[t].pc = "dense"
    /\ ranking \in Rankings(Len(rgColl), Min(rgT[t].task.k, Len(rgColl)))
    /\ RagGoes(t, "count", <<"dense">>,
               [rgT[t] EXCEPT !.dense = [i \in 1..Len(ranking) |->
                                            Citation(rgColl[ranking[i]], "dense")]])
    /\ UNCHANGED <<rgColl, rgBm25, rgBm25Docs, rgScans>>
    /\ RagGoesOn
    /\ UNCHANGED exceptRag

\* self.coll.count() >= SETTINGS.rag.bm25_min_docs: self._bm25_top(query, k),
\* else bm25 = []
RagCount(t) ==
    LET l == [rgT[t] EXCEPT !.n = Len(rgColl)]
    IN  /\ rgT[t].pc = "count"
        /\ IF l.n >= rgMin
           THEN /\ RagGoes(t, "ensure", <<"count", "bm25_top">>, l)
                /\ RagGoesOn
           ELSE RagFinish(t, [l EXCEPT !.trace = @ \o <<"count">>], "returned", "none", <<>>, 0)
        /\ UNCHANGED <<rgColl, rgBm25, rgBm25Docs, rgScans>>
        /\ UNCHANGED exceptRag

\* _ensure_bm25: if self._bm25 is not None: return
RagEnsure(t) ==
    /\ rgT[t].pc = "ensure"
    /\ RagGoes(t, IF rgBm25.some THEN "scores" ELSE "scan", <<>>, rgT[t])
    /\ UNCHANGED <<rgColl, rgBm25, rgBm25Docs, rgScans>>
    /\ RagGoesOn
    /\ UNCHANGED exceptRag

\* items = self.coll.get(...); docs = items.get("documents", []); with no
\* document, self._bm25, self._bm25_docs = None, []
RagScan(t) ==
    /\ rgT[t].pc = "scan"
    /\ rgScans' = rgScans + 1
    /\ IF rgColl = <<>>
       THEN /\ rgBm25' = NoIndex
            /\ rgBm25Docs' = IndexOf(<<>>, rgScans')
            /\ RagGoes(t, "scores", <<"scan">>, rgT[t])
       ELSE /\ RagGoes(t, "store_bm25", <<"scan">>,
                       [rgT[t] EXCEPT !.items = rgColl, !.build = rgScans'])
            /\ UNCHANGED <<rgBm25, rgBm25Docs>>
    /\ UNCHANGED rgColl
    /\ RagGoesOn
    /\ UNCHANGED exceptRag

\* self._bm25 = BM25Okapi(tokenised)
RagStoreBm25(t) ==
    /\ rgT[t].pc = "store_bm25"
    /\ rgBm25' = IndexOf(rgT[t].items, rgT[t].build)
    /\ RagGoes(t, "store_docs", <<>>, rgT[t])
    /\ UNCHANGED <<rgColl, rgBm25Docs, rgScans>>
    /\ RagGoesOn
    /\ UNCHANGED exceptRag

\* self._bm25_docs = list(zip(items["ids"], docs, items["metadatas"]))
RagStoreDocs(t) ==
    /\ rgT[t].pc = "store_docs"
    /\ rgBm25Docs' = IndexOf(rgT[t].items, rgT[t].build)
    /\ RagGoes(t, "scores", <<>>, rgT[t])
    /\ UNCHANGED <<rgColl, rgBm25, rgScans>>
    /\ RagGoesOn
    /\ UNCHANGED exceptRag

\* _bm25_top: if not self._bm25: return []
RagNoIndex(t) ==
    /\ rgT[t].pc = "scores"
    /\ ~rgBm25.some
    /\ RagFinish(t, rgT[t], "returned", "none", <<>>, 0)
    /\ UNCHANGED <<rgColl, rgBm25, rgBm25Docs, rgScans>>
    /\ UNCHANGED exceptRag

\* scores = self._bm25.get_scores(...); top = sorted(..., reverse=True)[:k]:
\* the k best positions of the corpus of the index, or all if it has fewer
RagScores(t, ranking) ==
    /\ rgT[t].pc = "scores"
    /\ rgBm25.some
    /\ ranking \in Rankings(Len(rgBm25.docs), Min(rgT[t].task.k, Len(rgBm25.docs)))
    /\ RagGoes(t, "cite", <<"get_scores">>, [rgT[t] EXCEPT !.top = ranking, !.over = rgBm25])
    /\ UNCHANGED <<rgColl, rgBm25, rgBm25Docs, rgScans>>
    /\ RagGoesOn
    /\ UNCHANGED exceptRag

\* for score, idx in top: _id, doc, meta = self._bm25_docs[idx]; subscripting
\* None raises TypeError, a position past the end of the list IndexError
RagCite(t) ==
    /\ rgT[t].pc = "cite"
    /\ IF ~rgBm25Docs.some
       THEN RagFinish(t, rgT[t], "raised", "TypeError", <<>>, 0)
       ELSE IF \E i \in 1..Len(rgT[t].top) : rgT[t].top[i] > Len(rgBm25Docs.docs)
       THEN RagFinish(t, rgT[t], "raised", "IndexError", <<>>, rgBm25Docs.build)
       ELSE RagFinish(t, rgT[t], "returned", "none",
                      [i \in 1..Len(rgT[t].top) |->
                          Citation(rgBm25Docs.docs[rgT[t].top[i]], "bm25")],
                      rgBm25Docs.build)
    /\ UNCHANGED <<rgColl, rgBm25, rgBm25Docs, rgScans>>
    /\ UNCHANGED exceptRag

\* scripts/build_indexes.py: collection.upsert adds a document
Upsert ==
    /\ Len(rgColl) < MaxDocs
    /\ rgColl' = Append(rgColl, Doc(Len(rgColl) + 1))
    /\ UNCHANGED <<rgBm25, rgBm25Docs, rgScans, rgT>>
    /\ RagGoesOn
    /\ UNCHANGED exceptRag

\* the rankings of at most MaxK of the documents
RagRankings == UNION {Rankings(MaxDocs, n) : n \in 0..MaxK}

\* the rankings that follow the order of insertion, and those that go back
\* from the last document
RagRankingsInOrder ==
    {r \in RagRankings :
        \/ \A i \in 1..Len(r) : r[i] = i
        \/ \A i \in 1..Len(r) : r[i] = MaxDocs + 1 - i}

\* the steps of thread t, with the rankings of the two searches drawn from R
RagStep(t, R) ==
    \/ \E task \in RagTasks : RagBegin(t, task)
    \/ RagDenseRaises(t)
    \/ \E ranking \in R : RagDense(t, ranking)
    \/ RagCount(t)
    \/ RagEnsure(t)
    \/ RagScan(t)
    \/ RagStoreBm25(t)
    \/ RagStoreDocs(t)
    \/ RagNoIndex(t)
    \/ \E ranking \in R : RagScores(t, ranking)
    \/ RagCite(t)

\* the worker threads call invoke at any time
RagNext ==
    \/ \E t \in RagThreads : RagStep(t, RagRankingsInOrder)
    \/ Upsert

\* the front door serves one request at a time; the searches rank in any order
RagSerialNext ==
    \/ RagStep("t1", RagRankings)
    \/ Upsert

(***************************************************************************)
(* Specifications: one per component; its actions leave the others alone.  *)
(***************************************************************************)
vars ==
    <<routerVars, retryVars, cacheVars, providerVars, chatVars, summariseVars, solverVars,
      ragVars, sudokuVars, workerVars>>

\* the collection of the retrieval provider when the process starts
RagAtRest == RagInit /\ rgColl = <<>> /\ rgMin = Bm25MinDocs

Init ==
    /\ RouterInit /\ RetryInit /\ CacheInit /\ ProvidersInit /\ ChatInit /\ SummariseInit
    /\ HrmInit /\ RagAtRest /\ SudokuInit /\ WorkersInit

RouterSpec == Init /\ [][RouterNext]_vars

\* the registry the front door builds: all six capabilities
FrontDoorProviders == Capability

\* the router of the front door, with no call under way
RouterAtRest ==
    /\ providers = FrontDoorProviders
    /\ routeTask = NoTask
    /\ routeStatus = "idle"
    /\ routeError = "none"
    /\ routeResult = NoResult
    /\ invoked = <<>>

\* the process of the front door after start-up
ServerInit ==
    /\ RouterAtRest /\ RetryInit /\ CacheInit /\ ProvidersInit /\ ChatInit /\ SummariseInit
    /\ HrmInit /\ RagAtRest /\ SudokuInit /\ WorkersInit

RetrySpec == ServerInit /\ [][RetryNext]_vars

CacheSpec == ServerInit /\ [][CacheNext]_vars

\* POST /invoke: the router over the registry of the front door
FrontDoorSpec == ServerInit /\ [][RouterNext]_vars

ProvidersSpec == ServerInit /\ [][ProvidersNext]_vars

ChatSpec == ServerInit /\ [][ChatNext]_vars

SummariseSpec == ServerInit /\ [][SummariseNext]_vars

\* the front door with the settings of core/settings.py, or with settings
\* that carry default_task and default_strategy
SolverStart ==
    /\ RouterAtRest /\ RetryInit /\ CacheInit /\ ProvidersInit /\ ChatInit /\ SummariseInit
    /\ hCfg \in HrmCfgs
    /\ HrmAtRest
    /\ RagAtRest /\ SudokuInit /\ WorkersInit

SolverSpec == SolverStart /\ [][HrmNext]_vars

\* the front door over a collection of any size
RagStart ==
    /\ RouterAtRest /\ RetryInit /\ CacheInit /\ ProvidersInit /\ ChatInit /\ SummariseInit
    /\ HrmInit /\ RagInit /\ SudokuInit /\ WorkersInit

RagSpec == RagStart /\ [][RagNext]_vars

RagSerialSpec == RagStart /\ [][RagSerialNext]_vars

SudokuSpec == ServerInit /\ [][SudokuNext]_vars

\* the worker threads of the front door, started as SolverStart starts it
WorkersSpec == SolverStart /\ [][WorkersNext]_vars

(***************************************************************************)
(* Router claims.                                                          *)
(***************************************************************************)
\* The words of the claims, stated on the contents themselves.
HasSourceWord ==
    [c \in Contents |->
        LET m == Lower(c) IN Contains(m, kwSource) \/ Contains(m, kwCitation)]

HasCommandPrefix ==
    [c \in Contents |->
        LET m == Lower(Strip(c)) IN StartsWith(m, kwNet) \/ StartsWith(m, kwSearch)]

MentionsSources(task) == \E j \in 1..Len(task.messages) : HasSourceWord[task.messages[j]]

LastIsSearchCommand(task) ==
    /\ task.messages # <<>>
    /\ HasCommandPrefix[task.messages[Len(task.messages)]]

RouteCalled == routeStatus # "idle"

\* route invoked exactly the provider registered under c, once, with the task
InvokedOnly(c) ==
    /\ Len(invoked) = 1
    /\ invoked[1].cap = c
    /\ invoked[1].task = routeTask
    /\ c \in providers

Step1Matches == routeTask.intent \in providers
Step2Matches == MentionsSources(routeTask) /\ RAG \in providers
Step3Matches == LastIsSearchCommand(routeTask) /\ SEARCH \in providers

\* C1: a task whose intent has a registered provider is dispatched to that
\* provider and to no other, and route returns that provider's result,
\* whatever the messages contain.
C1_IntentDispatch ==
    (RouteCalled /\ Step1Matches) =>
        /\ InvokedOnly(routeTask.intent)
        /\ routeStatus = "returned" => routeResult = ResultOf(invoked[1])
        /\ routeStatus = "raised" => routeError = "ProviderError"

\* a chat task asking for sources with a search prefix, retrieval and search
\* both registered, went to the chat provider
C1_Witness ==
    /\ routeStatus = "returned"
    /\ routeTask.intent = CHAT
    /\ {CHAT, RAG, SEARCH} \subseteq providers
    /\ MentionsSources(routeTask)
    /\ LastIsSearchCommand(routeTask)
    /\ InvokedOnly(CHAT)

\* C2: with no provider for the intent, a task of which any message contains
\* "source" or "citation" (any case) goes to the retrieval provider when one is
\* registered, also when the last message is a net:/search: command and a
\* search provider is registered.
C2_SourcesToRetrieval ==
    (RouteCalled /\ ~Step1Matches /\ Step2Matches) => InvokedOnly(RAG)

\* the word is in the first message only, the last message is a search
\* command, and the search provider is registered
C2_Witness ==
    /\ routeStatus = "returned"
    /\ ~Step1Matches
    /\ Len(routeTask.messages) = 2
    /\ MentionsSources([routeTask EXCEPT !.messages = <<routeTask.messages[1]>>])
    /\ ~MentionsSources([routeTask EXCEPT !.messages = <<routeTask.messages[2]>>])
    /\ Step3Matches
    /\ InvokedOnly(RAG)

\* C3: when steps 1 and 2 did not match, the task goes to the search provider
\* exactly when the last message, trimmed and lower-cased, starts with "net:" or
\* "search:" and a search provider is registered; the prefix in an earlier
\* message does not count.
C3_PrefixToSearch ==
    (RouteCalled /\ ~Step1Matches /\ ~Step2Matches /\ routeTask.messages # <<>>) =>
        /\ Step3Matches => InvokedOnly(SEARCH)
        /\ ~Step3Matches => \A j \in 1..Len(invoked) : invoked[j].cap # SEARCH

\* the last message needs trimming and lower-casing to show its prefix
C3_Witness ==
    /\ routeStatus = "returned"
    /\ ~Step1Matches /\ ~Step2Matches
    /\ routeTask.messages # <<>>
    /\ routeTask.messages[Len(routeTask.messages)] = <<" ","N","E","T",":","x">>
    /\ InvokedOnly(SEARCH)

\* C4: when none of steps 1 to 3 match, route dispatches to the chat provider;
\* without a chat provider it fails with an error and has invoked no provider.
C4_ChatFallback ==
    (RouteCalled /\ ~Step1Matches /\ ~Step2Matches /\ ~Step3Matches) =>
        /\ CHAT \in providers => InvokedOnly(CHAT)
        /\ CHAT \notin providers => (routeStatus = "raised" /\ invoked = <<>>)

\* C5: a route call that returns has invoked exactly one provider exactly once
\* with its task, also when the result is ok=false, and a call never changes
\* the provider registry.
C5_OneInvocation ==
    /\ [](routeStatus = "returned" =>
            /\ Len(invoked) = 1
            /\ invoked[1].task = routeTask
            /\ invoked[1].cap \in providers
            /\ routeResult = ResultOf(invoked[1]))
    /\ [][providers' = providers]_vars

\* a call returned an ok=false result while a chat provider was registered
C5_Witness ==
    /\ routeStatus = "returned"
    /\ routeResult.ok = FALSE
    /\ CHAT \in providers
    /\ invoked[1].cap # CHAT

(***************************************************************************)
(* Retry claims.                                                           *)
(***************************************************************************)
RetryEnded == rStatus \in {"returned", "raised"}

\* the first n calls of fn raised
FirstFailed(n) == \A k \in 1..n : ~rCalls[k].ok

\* C6: when the operation fails on its first n calls and succeeds on call
\* n+1, n < attempts, retry returns the value of that call after exactly n+1
\* calls and exactly n sleeps (attempts=3 and two failures: two sleeps).
C6_SuccessAfterFailures ==
    \A n \in 0..MaxAttempts :
        (RetryEnded /\ Len(rCalls) = n + 1 /\ FirstFailed(n) /\ rCalls[n + 1].ok) =>
            /\ n < rAttempts
            /\ rStatus = "returned"
            /\ rResult = rCalls[n + 1].val
            /\ Len(rSleeps) = n

\* attempts=3, two failures, then the value
C6_Witness ==
    /\ rStatus = "returned"
    /\ rAttempts = DefaultAttempts
    /\ Len(rCalls) = 3
    /\ FirstFailed(2)
    /\ rResult = "pong"
    /\ Len(rSleeps) = 2

C8_BackoffDelays ==
    \A k \in 1..Len(rSleeps) :
        LET d == rSleeps[k]
            i == k - 1
        IN  /\ d.base = (IF rBase * (2 ^ i) < rMax THEN rBase * (2 ^ i) ELSE rMax)
            /\ d.base <= rMax
            /\ k > 1 => rSleeps[k - 1].base <= d.base
            /\ 4 * d.num >= 4 * d.base * (4 * JitterSteps)
            /\ 4 * d.num < 5 * d.base * (4 * JitterSteps)

\* a sleep whose base is capped by max_delay after an uncapped one, with jitter
C8_Witness ==
    /\ Len(rSleeps) >= 2
    /\ rSleeps[1].base = rBase
    /\ rSleeps[2].base = rMax
    /\ rBase * 2 > rMax
    /\ rSleeps[2].num > rSleeps[2].base * (4 * JitterSteps)

(***************************************************************************)
(* Cache claims.                                                           *)
(***************************************************************************)
RowsOf(key) == {r \in kv : r.k = Hash(key)}

\* the stored value of a key is the value of the last committed put, and a key
\* has a row exactly when a put of it has been committed
StoreMatchesPuts ==
    \A key \in Keys :
        IF lastPut[key].some
        THEN /\ RowsOf(key) # {}
             /\ \A r \in RowsOf(key) : DeepEqual(Loads(r.v), lastPut[key].v)
        ELSE RowsOf(key) = {}

\* a get that returns gives absent when no put of its key was committed, and else
\* a value deep-equal to the value of the most recent one
GetReturnsLastPut ==
    \A c \in Readers :
        (client[c].pc = "return" /\ client'[c].pc = "done") =>
            LET put == lastPut[client[c].key]
                got == client'[c].res
            IN  /\ client'[c].status = "returned"
                /\ got.some <=> put.some
                /\ got.some => DeepEqual(got.v, put.v)

\* only a put of the same key changes what is stored for a key
OnlyPutOfKeyChanges ==
    \A key \in Keys :
        RowsOf(key)' # RowsOf(key) =>
            \E w \in Writers :
                /\ client[w].pc = "commit" /\ client'[w].pc = "done"
                /\ client[w].key = key

EntriesStay == \A key \in Keys : RowsOf(key) # {} => RowsOf(key)' # {}

\* C9: get(k) returns absent exactly when no put(k, v) has occurred and
\* otherwise a value deep-equal to the v of the most recent put(k, v); calls on
\* other keys never change what is stored for k, and an entry once written
\* never disappears.
C9_GetReturnsLastPut ==
    /\ []StoreMatchesPuts
    /\ [][GetReturnsLastPut /\ OnlyPutOfKeyChanges /\ EntriesStay]_vars

\* two puts of one key have been committed, the nested payload last; a get of
\* that key returned it, and the other key is still absent
C9_Witness ==
    /\ \A w \in Writers : client[w].pc = "done" /\ client[w].status = "returned"
                          /\ client[w].key = "hrm:a"
    /\ Len(client["w1"].val) = 1
    /\ Len(client["w2"].val) = 2
    /\ client["r1"].pc = "done" /\ client["r1"].key = "hrm:a"
    /\ client["r1"].res = Some(client["w2"].val)
    /\ lastPut["hrm:a"] = Some(client["w2"].val)
    /\ ~lastPut["hrm:b"].some

\* both puts of a pair that ran concurrently on one key have returned
BothPutsDone(w1, w2) ==
    /\ w1 # w2
    /\ client[w1].pc = "done" /\ client[w1].status = "returned" /\ client[w1].overlapped
    /\ client[w2].pc = "done" /\ client[w2].status = "returned" /\ client[w2].overlapped
    /\ client[w1].key = client[w2].key
    /\ ~DeepEqual(client[w1].val, client[w2].val)

\* C10: two concurrent puts of one key with different values are each atomic:
\* after both have returned the store holds exactly one entry for the key and
\* its value is entirely one of the two values written; a get never reads
\* anything but absent or the whole value of a committed put.
C10_ConcurrentPutsAtomic ==
    /\ [](\A key \in Keys : Cardinality(RowsOf(key)) <= 1)
    /\ [](\A w1, w2 \in Writers :
            BothPutsDone(w1, w2) =>
                /\ Cardinality(RowsOf(client[w1].key)) = 1
                /\ \A r \in RowsOf(client[w1].key) :
                       r.v = Dumps(client[w1].val) \/ r.v = Dumps(client[w2].val))
    /\ [][\A c \in Readers :
            (client[c].pc = "select" /\ client'[c].pc = "return") =>
                LET put == lastPut[client[c].key]
                    row == client'[c].row
                IN  IF put.some THEN row = Row(Dumps(put.v)) ELSE row = NoRow]_vars

\* both concurrent puts have returned and a get that ran beside them returned one
\* of the two values
C10_Witness ==
    /\ BothPutsDone("w1", "w2")
    /\ client["r1"].pc = "done" /\ client["r1"].key = client["w1"].key
    /\ client["r1"].res = Some(client["w1"].val)
    /\ lastPut[client["w1"].key] = Some(client["w2"].val)

(***************************************************************************)
(* Provider claims.                                                        *)
(***************************************************************************)
\* C11: for every provider and every task, invoke returns a ProviderResult
\* and never raises to its caller; a failure at any step of the call
\* becomes a result with ok = false.
C11_InvokeNeverRaises == pvStatus # "raised"

\* C12: every ProviderResult a provider's invoke returns with ok = false has
\* a non-empty text and a non-empty warnings list.
C12_FailureHasTextAndWarning ==
    (pvStatus = "returned" /\ ~pvResult.ok) =>
        (pvResult.text # "" /\ pvResult.warnings # <<>>)

(***************************************************************************)
(* Chat claims.                                                            *)
(***************************************************************************)
\* the requests of the call that succeeded
ChatSuccesses == {i \in 1..Len(chRequests) : chRequests[i].outcome = "ok"}

IsDigit(ch) == ch \in Digits

\* the contents whose digits are an 81-digit grid that is not a valid Sudoku
MalformedGrid ==
    [c \in SolverContents |->
        LET grid == SelectSeq(c, IsDigit) IN Len(grid) = 81 /\ ~IsValidSudoku(grid)]

Posts(e) == {i \in 1..Len(e.trace) : e.trace[i] = "post"}
Writes(e) == {i \in 1..Len(e.trace) : e.trace[i] = "cache_set"}

\* C14: a solver task whose text yields exactly 81 digits that form a
\* malformed Sudoku grid returns ok = false without any upstream call and
\* without any cache write.
C14_MalformedGridShortCircuits ==
    \A n \in 1..Len(hLog) :
        LET e == hLog[n]
        IN  MalformedGrid[e.task.messages[1]] =>
                /\ e.status = "returned"
                /\ ~e.result.ok
                /\ Posts(e) = {}
                /\ Writes(e) = {}
                /\ e.after = e.before

\* the call missed the cache, got a payload from upstream and returned it
MissedAndSolved(e) ==
    /\ e.status = "returned"
    /\ e.result.ok
    /\ Posts(e) # {}
    /\ e.payload.some

\* the call was served from the cache
ServedFromCache(e) ==
    /\ e.status = "returned"
    /\ e.result.ok
    /\ Posts(e) = {}
    /\ \E i \in 1..Len(e.result.warnings) : e.result.warnings[i] = "cached"

\* C15: for every solver task and every successful upstream payload, the
\* first invocation on an empty cache performs an upstream call, and an
\* identical second invocation performs no upstream call and returns
\* ok = true with warnings containing "cached" and data equal to the payload
\* of the first call.
C15_SecondCallServedFromCache ==
    /\ (Len(hLog) >= 1 /\ hLog[1].before = {}) => Posts(hLog[1]) # {}
    /\ (Len(hLog) = 2 /\ MissedAndSolved(hLog[1]) /\ hLog[2].task = hLog[1].task) =>
            /\ ServedFromCache(hLog[2])
            /\ DeepEqual(hLog[2].result.data, hLog[1].payload.v)

\* a miss that got a payload, followed by a hit that returns that payload
MissThenHit ==
    /\ Len(hLog) = 2
    /\ MissedAndSolved(hLog[1])
    /\ ServedFromCache(hLog[2])
    /\ DeepEqual(hLog[2].result.data, hLog[1].payload.v)

UpstreamFailed(e) == Posts(e) # {} /\ ~e.payload.some

\* the steps of a call are in the order of the state machine
InOrder(trace) ==
    /\ \A i \in 1..Len(trace) :
          trace[i] = "post" => \E j \in 1..(i - 1) : trace[j] = "cache_get"
    /\ \A i \in 1..Len(trace) :
          trace[i] = "cache_set" =>
              /\ i = Len(trace)
              /\ i > 1
              /\ trace[i - 1] = "post"

FailedWith(e, errors) ==
    /\ e.status = "returned"
    /\ ~e.result.ok
    /\ \E i \in 1..Len(e.result.warnings) : e.result.warnings[i] \in errors

Sleeps(e) == {i \in 1..Len(e.trace) : e.trace[i] = "sleep"}

StoredThenAsked ==
    /\ Len(hLog) = 2
    /\ MissedAndSolved(hLog[1])
    /\ hLog[1].payload.v # <<>>
    /\ hLog[2].status = "returned"

ParamOf(task, name, default) ==
    IF \E i \in 1..Len(task.params) : task.params[i][1] = name
    THEN task.params[CHOOSE i \in 1..Len(task.params) : task.params[i][1] = name][2]
    ELSE default

\* the two tasks make the same request: the same stripped messages, task
\* name, strategy, locale, timezone and user tags
SameRequest(t1, t2) ==
    /\ Len(t1.messages) = Len(t2.messages)
    /\ \A i \in 1..Len(t1.messages) : Strip(t1.messages[i]) = Strip(t2.messages[i])
    /\ ParamOf(t1, "hrm_task", "default") = ParamOf(t2, "hrm_task", "default")
    /\ ParamOf(t1, "strategy", "default") = ParamOf(t2, "strategy", "default")
    /\ t1.locale = t2.locale
    /\ t1.tz = t2.tz
    /\ t1.user_tags = t2.user_tags

AnswerTitles == {"Answer", "Final Answer", "Solution", "Response", "Output", "Text"}
AnswerFields == <<"answer", "final_answer", "solution", "response", "output", "text">>
ListFields == {"steps", "plan", "insights"}

\* the blocks of a text that are answer sections
AnswerSections(text) ==
    {i \in 1..Len(text) :
        /\ Len(text[i][1]) = 3
        /\ text[i][1][1] = "**"
        /\ text[i][1][2] \in AnswerTitles}

HasKey(data, key) == \E i \in 1..Len(data) : data[i][1] = key

\* the payload has the field with a string that is not blank
HasAnswer(data, field) ==
    \E i \in 1..Len(data) :
        /\ data[i][1] = field
        /\ data[i][2].t = "str"
        /\ data[i][2].s \notin {"", "  "}

\* C19: the rendered summary contains exactly one answer section, taken from
\* the first field in the priority order answer, final_answer, solution,
\* response, output, text that is present in the payload; if none of the
\* answer fields and none of the steps, plan and insights lists is present,
\* the summary is the pretty-printed raw JSON payload.
C19_OneAnswerSection ==
    smText # NoText =>
        LET present == {j \in 1..Len(AnswerFields) : HasAnswer(smData, AnswerFields[j])}
        IN  /\ present # {} =>
                  /\ Cardinality(AnswerSections(smText)) = 1
                  /\ \E j \in present :
                        /\ \A k \in present : j <= k
                        /\ \E i \in AnswerSections(smText) :
                              smText[i][1][2] = TitleOf(AnswerFields[j])
            /\ (/\ \A j \in 1..Len(AnswerFields) : ~HasKey(smData, AnswerFields[j])
                /\ \A name \in ListFields : ~HasKey(smData, name)) =>
                  smText = <<FencedJson(smData)>>


(***************************************************************************)
(* Retrieval claims, stated on the call of invoke that has just ended.     *)
(***************************************************************************)
RagFinished == rgLast.status # "none"

Did(call, step) == \E i \in 1..Len(call.trace) : call.trace[i] = step

\* C21: every call of invoke runs the dense query; it runs the lexical pass
\* (_bm25_top) if and only if the count it read from the collection is at
\* least the configured minimum; and below the minimum every fused citation
\* is a dense one.
C21_DenseAlwaysLexicalByCount ==
    RagFinished =>
        /\ Did(rgLast, "dense")
        /\ Did(rgLast, "bm25_top") <=> (Did(rgLast, "count") /\ rgLast.n >= rgMin)
        /\ rgLast.n < rgMin =>
              \A i \in 1..Len(rgLast.citations) : rgLast.citations[i].score = "dense"

\* the lexical results followed by the dense results of the last call
Concatenated == rgLast.bm25 \o rgLast.dense

\* the pair (source, first 120 characters of the snippet) of a citation
PairOf(c) == <<c.source, c.snippet[1]>>

\* the positions of a list whose pair did not occur earlier in it
FirstSeen(list) ==
    {i \in 1..Len(list) : ~\E j \in 1..(i - 1) : PairOf(list[j]) = PairOf(list[i])}

\* the n-th smallest member of a set of positions
Nth(S, n) == CHOOSE x \in S : Cardinality({y \in S : y < x}) = n - 1

\* C22: the fused list of a returned call is the lexical results followed by
\* the dense results without the citations whose pair occurred earlier, in
\* first-seen order, cut to k: it has at most k entries, no pair twice, and
\* a citation found by both searches is there once, as the lexical result at
\* its place among the lexical results.
C22_FusionLexicalFirstDedupTruncate ==
    rgLast.status = "returned" =>
        LET fused == rgLast.citations
            first == FirstSeen(Concatenated)
            lexical == FirstSeen(rgLast.bm25)
        IN  /\ Len(fused) <= rgLast.task.k
            /\ Len(fused) = Min(rgLast.task.k, Cardinality(first))
            /\ \A i \in 1..Len(fused) : fused[i] = Concatenated[Nth(first, i)]
            /\ \A i, j \in 1..Len(fused) : i # j => PairOf(fused[i]) # PairOf(fused[j])
            /\ \A n \in 1..Cardinality(lexical) :
                  /\ fused[n] = rgLast.bm25[Nth(lexical, n)]
                  /\ Cardinality({i \in 1..Len(fused) : PairOf(fused[i]) = PairOf(fused[n])}) = 1

\* a returned call whose two searches found the same pair with different
\* snippets, and whose fused list was cut to k
C22_Witness ==
    /\ rgLast.status = "returned"
    /\ Len(rgLast.citations) = rgLast.task.k
    /\ Cardinality(FirstSeen(Concatenated)) > rgLast.task.k
    /\ \E i \in 1..Len(rgLast.bm25), j \in 1..Len(rgLast.dense) :
          /\ PairOf(rgLast.bm25[i]) = PairOf(rgLast.dense[j])
          /\ rgLast.bm25[i].snippet # rgLast.dense[j].snippet

\* C23: over any interleaving of the queries of one provider instance the
\* full corpus scan that builds the lexical index happens at most once, and
\* a query that ranks with the index reads the document list of the same
\* build.
C23_IndexBuiltOnce ==
    /\ rgScans <= 1
    /\ Did(rgLast, "get_scores") => rgLast.docs = rgLast.index

(***************************************************************************)
(* Search claims.                                                          *)
(***************************************************************************)
SearchCalled == pvName = "websearch" /\ pvStatus # "idle"

\* the credential of the configured backend is not set
CredentialMissing ==
    \/ pvEnv.backend = "tavily" /\ pvEnv.tavily = ""
    \/ pvEnv.backend = "serpapi" /\ pvEnv.serpapi = ""

\* the call returned ok=false and sent nothing over the network
RefusedOffline == pvStatus = "returned" /\ ~pvResult.ok /\ pvNet = <<>>

SearchDisabledText == "Search disabled. Enable in config."

\* C24: with search disabled, invoke returns ok=false without a network
\* call, whatever the credentials; with search enabled and the credential of
\* the configured backend missing it also returns ok=false without a network
\* call, with another explanation than the one for disabled search.
C24_DisabledThenCredential ==
    SearchCalled =>
        /\ ~pvEnv.enabled => RefusedOffline /\ pvResult.text = SearchDisabledText
        /\ pvEnv.enabled /\ CredentialMissing =>
              RefusedOffline /\ pvResult.text # SearchDisabledText

(***************************************************************************)
(* Grid validator claims.                                                  *)
(***************************************************************************)
\* the digit ch, one of "1".."9", stands in two cells of one row, one column
\* or one 3x3 box of the grid
Twice(grid, ch) ==
    \E i, j \in 1..81 :
        /\ i < j
        /\ grid[i] = ch /\ grid[j] = ch
        /\ \/ (i - 1) \div 9 = (j - 1) \div 9
           \/ (i - 1) % 9 = (j - 1) % 9
           \/ /\ (i - 1) \div 27 = (j - 1) \div 27
              /\ ((i - 1) % 9) \div 3 = ((j - 1) % 9) \div 3

\* C25: is_valid_sudoku(grid) is true if and only if the grid has exactly 81
\* characters, each one of "0".."9", and none of "1".."9" stands twice in a
\* row, a column or a 3x3 box; "0" is a blank and may repeat.
C25_ValidIffNoDuplicate ==
    sdGrid # NoGrid =>
        (sdValid <=>
            /\ Len(sdGrid) = 81
            /\ \A i \in 1..81 : sdGrid[i] \in Digits
            /\ \A ch \in Digits \ {"0"} : ~Twice(sdGrid, ch))

(***************************************************************************)
(* Front door claims.                                                      *)
(***************************************************************************)
\* C26: the registry of the front door holds all six capabilities, and every
\* task it admits (its intent is one of the six) is dispatched in step 1 to
\* the provider of its intent and to no other: route never gets to the
\* content tests of steps 2 and 3, to the read of the last message, or to
\* the chat fallback of step 4.
C26_FrontDoorDispatchesByIntent ==
    /\ providers = Capability
    /\ RouteCalled =>
          /\ routeTask.intent \in Capability
          /\ Step1Matches
          /\ InvokedOnly(routeTask.intent)
          /\ routeError \notin {"IndexError", "KeyError"}

\* the front door got a speech task that asks for sources and ends in a
\* search command, and it went to the speech provider
C26_Witness ==
    /\ routeStatus = "returned"
    /\ providers = Capability
    /\ routeTask.intent = STT
    /\ MentionsSources(routeTask)
    /\ LastIsSearchCommand(routeTask)
    /\ InvokedOnly(STT)

\* C27: route on a task with no message raises IndexError without invoking
\* any provider when no provider is registered for the intent, also when a
\* chat provider is registered; when a provider is registered for the intent,
\* the task goes to it as any other task does.
C27_EmptyTaskRaisesUnlessIntentRegistered ==
    (RouteCalled /\ routeTask.messages = <<>>) =>
        /\ routeTask.intent \notin providers =>
              /\ routeStatus = "raised"
              /\ routeError = "IndexError"
              /\ invoked = <<>>
        /\ routeTask.intent \in providers =>
              /\ InvokedOnly(routeTask.intent)
              /\ routeError # "IndexError"

\* a task with no message and an unregistered intent raised although the
\* chat provider was registered
C27_Witness ==
    /\ routeStatus = "raised"
    /\ routeError = "IndexError"
    /\ routeTask.messages = <<>>
    /\ routeTask.intent \notin providers
    /\ CHAT \in providers
    /\ invoked = <<>>

(***************************************************************************)
(* Claims on the solver calls of the worker threads.                       *)
(***************************************************************************)
WorkerKey == HrmCacheKey(WorkerTask)

\* the lookup of worker t found the stored empty object
FoundEmpty(t) == wT[t].cached = Some(<<>>)

\* worker t has missed and has not yet sent its first request upstream
AboutToPost(t) == wT[t].pc = "post" /\ wT[t].i = 0

WentUpstream(t) == \E n \in 1..Len(wT[t].trace) : wT[t].trace[n] = "post"

Stored(t) ==
    /\ wT[t].trace # <<>>
    /\ wT[t].trace[Len(wT[t].trace)] = "cache_set"

\* the rows of the cache for the request of the workers
WorkerRows == {r \in kv : r.k = Hash(WorkerKey)}

C30_NoAttemptsRaisesWithoutCalling ==
    (rStatus # "idle" /\ rAttempts <= 0) =>
        /\ rCalls = <<>>
        /\ rSleeps = <<>>
        /\ rLastErr = NoErr
        /\ rStatus = "raised"
        /\ rResult = "none"
        /\ rRaised = RaiseNoneError
        /\ rRaised.type \notin ErrTypes

\* retry(fn, attempts=-1) has ended
C30_Witness ==
    /\ rAttempts = 0 - 1
    /\ rStatus = "raised"
    /\ rCalls = <<>>
    /\ rSleeps = <<>>
    /\ rRaised = RaiseNoneError

=============================================================================
